---- MODULE Spec2Model ----
(***************************************************************************)
(* PagePal AI: the progressive viewport-capture engine.                    *)
(*                                                                         *)
(* Two visual content scripts are modelled, each as the page's event loop: *)
(*   - the tracker script (class ProgressiveViewportTracker and its        *)
(*     message handlers), and                                              *)
(*   - content-visual.js (captureCurrentViewport / captureFullPageScroll). *)
(* Every action is one run-to-completion turn of the event loop: a message *)
(* handler, a timer callback, a reply callback or a scroll event, taken up *)
(* to its next await.                                                      *)
(***************************************************************************)
EXTENDS Integers, Sequences, FiniteSets, Bags, TLC

\* ------------------------------------------------------------------ bounds
\* number of START_VIEWPORT_TRACKING requests, and the most scroll-triggered
\* captures of the global tracker that wait at the same time
MaxStarts == 2
\* number of scroll movements made by the user
MaxUserScrolls == 1
\* number of times the popup executes content-visual.js in the page
MaxScans == 2
\* number of lazy images in the document
MaxImages == 2
\* length of a clock tick, in milliseconds, and number of ticks
TickMs == 500
MaxTicks == 5
\* number of cache lifetimes the text scripts' clock runs for
MaxCacheLives == 2
\* number of elements at the top of a document and deepest nesting of
\* containers
MaxKids == 2
MaxDepth == 3
\* number of GET_PAGE_TEXT requests made of a document
MaxCalls == 2
\* number of pages in a study session
MaxPages == 2
\* number of calls of saveAPIKey
MaxSaves == 2

\* the global viewportTracker and the tracker a GET_PAGE_VISUAL request creates
TrackerIds == {"global", "request"}

\* ------------------------------------------------------- JavaScript numbers
\* a number is an integer or NaN
Num(v) == [nan |-> FALSE, v |-> v]
NaN == [nan |-> TRUE, v |-> 0]

\* a + b
NumAdd(a, b) == IF a.nan \/ b.nan THEN NaN ELSE Num(a.v + b.v)
\* Math.min(a, b)
NumMin(a, b) == IF a.nan \/ b.nan THEN NaN ELSE Num(IF a.v <= b.v THEN a.v ELSE b.v)
\* a < b
NumLt(a, b) == ~a.nan /\ ~b.nan /\ a.v < b.v
\* a >= b
NumGe(a, b) == ~a.nan /\ ~b.nan /\ a.v >= b.v

\* ------------------------------------------------------------ configuration
\* CONFIG.CAPTURE_THRESHOLD: the key is absent from CONFIG, so it is undefined
CAPTURE_THRESHOLD == NaN
\* CONFIG.VIEWPORT_OVERLAP: the key is absent from CONFIG, so it is undefined
VIEWPORT_OVERLAP == [def |-> FALSE, num |-> 0, den |-> 1]
\* the literal 0.8 of captureFullPageScroll
VISUAL_OVERLAP == [def |-> TRUE, num |-> 8, den |-> 10]
\* CONFIG.LAZY_CONTENT_TIMEOUT
LAZY_CONTENT_TIMEOUT == Num(1000)
\* CONFIG.LAZY_LOADING_WAIT: the key is absent from CONFIG, so it is undefined
LAZY_LOADING_WAIT == NaN
\* CONFIG.CACHE_DURATION of content-enhanced.js, CACHE_DURATION of content.js
CACHE_DURATION == 30000
\* CONFIG.MAX_CONTEXT_LENGTH
MAX_CONTEXT_LENGTH == 12000
\* the literal 20 of captureFullPageScroll's safety limit
SAFETY_LIMIT == 20
\* the literal 10 of captureFullPageScroll's bottom test
BOTTOM_SLACK == 10

\* Math.floor(h * overlap)
FloorMulFull(h, overlap) == Num(h)
FloorMul(h, overlap) ==
  IF overlap.def THEN Num((h * overlap.num) \div overlap.den) ELSE NaN

\* ------------------------------------------------------------------- pages
\* the documents the scripts run in: page height, viewport height and the
\* largest offset the window can scroll to (0 when the content scrolls in an
\* inner container and the window itself does not move)
Pages ==
  { [pageHeight |-> 1000,  innerHeight |-> 1000, maxScrollY |-> 0],
    [pageHeight |-> 3000,  innerHeight |-> 1000, maxScrollY |-> 2000],
    [pageHeight |-> 3000,  innerHeight |-> 1000, maxScrollY |-> 0] }

\* the offsets the user scrolls to
UserOffsets == {0, 300}

\* the documents the text scripts extract from: whether there is a body (or
\* another content root), the text it shows and the page's address
NoBodyDoc == [body |-> FALSE, text |-> "", url |-> "u1"]
BlankDoc == [body |-> TRUE, text |-> "", url |-> "u1"]
Docs ==
  { NoBodyDoc, BlankDoc,
    [body |-> TRUE, text |-> " ", url |-> "u1"],
    [body |-> TRUE, text |-> "a", url |-> "u1"],
    [body |-> TRUE, text |-> "b", url |-> "u2"] }

\* the times the user lets pass between two actions, in milliseconds
Delays == {10000, 19999}

VARIABLES
  script,          \* which content script the page runs: "tracker" or "visual"
  page,            \* the document: pageHeight, innerHeight, maxScrollY
  scrollY,         \* window.scrollY
  userScrolls,     \* scroll movements made so far by the user
  viewportTracker, \* the global tracker instance: "null" or "set"
  trackers,        \* the ProgressiveViewportTracker objects
  listeners,       \* scroll listeners registered on window
  pendingScroll,   \* 1 while a scroll event waits to be dispatched, else 0
  pending,         \* the global tracker's captureCurrentViewport calls that
                   \* wait at an await: a bag of invocations
  request,         \* the GET_PAGE_VISUAL request in progress or last answered
  injected,        \* how many times content-visual.js has been executed in
                   \* the page: each execution adds an onMessage listener
  now,             \* the clock, in milliseconds
  lazy,            \* the call of waitForLazyContent under study
  document,        \* the document the text scripts extract from
  cachedPageText,  \* the text scripts' cached artifact
  lastExtractionTime, \* the time of the build that stored it
  textResp,        \* the last GET_PAGE_TEXT request: mode, value returned by
                   \* the extraction function, response
  dom,             \* the element tree the structured extraction works on
  walk,            \* the structured extraction of dom and its formatted text
  studySession,    \* the popup's study session
  prompt,          \* the last text-mode provider request built by the popup
  storage,         \* chrome.storage: the stored API keys and provider
  saved,           \* the outcome of the last saveAPIKey call
  ask,             \* the Ask button, the loading indicator and the run of
                   \* handleAskQuestion in progress or last finished
  reset,           \* the Reset All Data button: its label, its click
                   \* listeners, its timers and what its clicks did
  truncation,      \* the last call of truncateText: its arguments and result
  syncResp         \* the response sent by the turn that is running, if any

vars == <<script, page, scrollY, userScrolls,
          viewportTracker, trackers, listeners, pendingScroll, pending, request,
          injected, now, lazy, document, cachedPageText, lastExtractionTime,
          textResp, dom, walk, truncation, studySession, prompt, storage, saved, ask, reset,
          syncResp>>

\* the state of the text scripts
extraction == <<document, cachedPageText, lastExtractionTime, textResp>>

\* the state of the popup
popup == <<studySession, prompt, storage, saved, ask, reset, truncation>>

\* the state of the structured extraction and of the popup
aside == <<dom, walk, truncation, studySession, prompt, storage, saved, ask, reset>>

\* what the message handlers and capture runs leave alone
env == <<script, page, now, lazy, extraction, aside>>

\* the state of the message handlers and capture runs
capture == <<scrollY, userScrolls, viewportTracker, trackers, listeners,
             pendingScroll, pending, request, injected, syncResp>>

\* -------------------------------------------------------------- the window
\* window.scrollTo(0, y): a non-finite y is normalised to 0 and the offset is
\* clamped to the window's scroll range
ScrollTo(y) ==
  IF y.nan THEN 0
  ELSE IF y.v < 0 THEN 0
  ELSE IF y.v > page.maxScrollY THEN page.maxScrollY
  ELSE y.v

Abs(x) == IF x < 0 THEN -x ELSE x

\* ------------------------------------------------------------ viewportHistory
\* a Map in insertion order: a sequence of [key, data] pairs with unique keys
MapHas(m, k) == \E i \in 1..Len(m) : m[i].key = k

\* Map.prototype.set: replaces the value of an existing key, else appends
MapSet(m, k, d) ==
  IF MapHas(m, k)
  THEN [i \in 1..Len(m) |-> IF m[i].key = k THEN [key |-> k, data |-> d] ELSE m[i]]
  ELSE Append(m, [key |-> k, data |-> d])

MapKeys(m) == {m[i].key : i \in 1..Len(m)}

\* new ProgressiveViewportTracker()
NewTracker == [viewportHistory |-> <<>>, isTracking |-> FALSE, lastScrollY |-> 0]

\* this.viewportHistory.has(scrollY)
HasViewportNever(tr, y) == FALSE
HasViewport(tr, y) == MapHas(tr.viewportHistory, y)

\* the entry captureCurrentViewport stores for the offset it read on entry
ViewportEntryLive(key, shot) ==
  [screenshot |-> shot, scrollY |-> scrollY, viewportHeight |-> page.innerHeight]
ViewportEntry(key, shot) ==
  [screenshot |-> shot, scrollY |-> key, viewportHeight |-> page.innerHeight]

\* the tail of captureCurrentViewport: if (screenshot) viewportHistory.set(...)
StoreAlways(tr, key, ok, shot) ==
  [tr EXCEPT !.viewportHistory = MapSet(@, key, ViewportEntry(key, shot))]
StoreViewport(tr, key, ok, shot) ==
  IF ok
  THEN [tr EXCEPT !.viewportHistory = MapSet(@, key, ViewportEntry(key, shot))]
  ELSE tr

\* Array.from(entries).sort(([a], [b]) => a - b), keys being unique
RECURSIVE SortByKey(_)
SortByKey(m) ==
  IF Len(m) = 0 THEN <<>>
  ELSE LET i == CHOOSE j \in 1..Len(m) : \A k \in 1..Len(m) : m[j].key <= m[k].key
           rest == [k \in 1..(Len(m) - 1) |-> IF k < i THEN m[k] ELSE m[k + 1]]
       IN  <<m[i]>> \o SortByKey(rest)

\* generateCompositeImage's viewports: the sorted entries, mapped
SortedViewports(tr) ==
  LET s == SortByKey(tr.viewportHistory) IN
  [i \in 1..Len(s) |->
     [scrollY |-> s[i].key,
      screenshot |-> s[i].data.screenshot,
      viewportHeight |-> s[i].data.viewportHeight]]

\* generateCompositeImage: throws on an empty set, else the sorted viewports
GenerateCompositeImageNoThrow(tr) ==
  [ok |-> TRUE, viewports |-> SortedViewports(tr), error |-> ""]
GenerateCompositeImage(tr) ==
  IF Len(tr.viewportHistory) = 0
  THEN [ok |-> FALSE, viewports |-> <<>>, error |-> "No viewport data captured"]
  ELSE [ok |-> TRUE, viewports |-> SortedViewports(tr), error |-> ""]

\* --------------------------------------------------------------- responses
NoResp == [sent |-> FALSE, success |-> FALSE, mode |-> "", viewports |-> <<>>, error |-> ""]
Success(mode, viewports) ==
  [sent |-> TRUE, success |-> TRUE, mode |-> mode, viewports |-> viewports, error |-> ""]
Failure(error) ==
  [sent |-> TRUE, success |-> FALSE, mode |-> "", viewports |-> <<>>, error |-> error]

\* handleVisualRequest's sendResponse after generateCompositeImage, with the
\* catch block turning a throw into {success:false, error}
VisualResponse(mode, composite) ==
  IF composite.ok THEN Success(mode, composite.viewports) ELSE Failure(composite.error)

\* a handler that answers synchronously calls sendResponse inside its turn:
\* the response is held until that turn ends
NoSync == [action |-> "none", resp |-> NoResp]

\* the event loop runs one turn at a time: a turn begins when none is running
Ready == syncResp = NoSync

\* ------------------------------------------------------------- invocations
NoTarget == [set |-> FALSE, nan |-> FALSE, v |-> 0]
Target(y) == [set |-> TRUE, nan |-> y.nan, v |-> y.v]

\* an invocation of an async function: its locals and where it waits
IdleTask ==
  [kind |-> "none",        \* start, scroll (global tracker); auto, current
                           \* (tracker script's GET_PAGE_VISUAL); fp, cv (content-visual.js)
   pc |-> "idle",          \* where the invocation waits
   stage |-> "-",          \* auto: "first" before the loop, "loop" inside it
   key |-> 0,              \* captureCurrentViewport's local scrollY
   reply |-> "none",       \* the capture primitive's reply
   shotAt |-> 0,           \* the offset the window had when the image was taken
   scrollStep |-> NaN,     \* the auto-scroll step
   currentScroll |-> Num(0),
   target |-> NoTarget,    \* the argument of the request's last window.scrollTo
   screenshots |-> <<>>,   \* captureFullPageScroll's list
   last |-> "none",        \* how the last captureCurrentViewport call of a
                           \* GET_PAGE_VISUAL request ended
   failed |-> FALSE,       \* fp: some capture of the run has failed
   listener |-> 1,         \* content-visual.js: the onMessage listener that
                           \* started the run, in order of registration
   resp |-> NoResp]

GlobalKinds == {"start", "scroll"}

\* the tracker an invocation works on
TrackerOf(tk) == IF tk.kind \in GlobalKinds THEN "global" ELSE "request"

\* the popup disables its button while it waits for the answer of
\* GET_PAGE_VISUAL: the next request comes once the last one is answered
VisualIdle == request.pc \in {"idle", "done"}

\* the invocations that wait at an await
Waiting == BagToSet(pending) \cup {request}

\* invocation tk has run one turn and is now new; one of the global tracker
\* that has returned leaves the bag. The bag also holds the runs that the
\* second and later listeners of content-visual.js start for a request.
After(tk, new) ==
  IF tk.kind \in GlobalKinds \/ tk.listener > 1
  THEN /\ pending' = IF new.pc = "done" /\ tk.kind \in GlobalKinds
                     THEN pending (-) SetToBag({tk})
                     ELSE (pending (-) SetToBag({tk})) (+) SetToBag({new})
       /\ request' = request
  ELSE /\ request' = new
       /\ pending' = pending

\* no call of waitForLazyContent has been made
NoWait ==
  [pc |-> "idle",     \* "idle", "waiting" (promise pending) or "resolved"
   start |-> 0,       \* the time of the call
   done |-> 0,        \* the time the promise was resolved
   n |-> 0,           \* images.length
   imagesLoaded |-> 0,
   loading |-> {},    \* the images whose load and error listeners still wait
   timer |-> -1]      \* when the call's setTimeout is due, -1 when it has fired

\* currentScroll only ever meets Math.min(.., pageHeight - innerHeight) and
\* (.. < pageHeight): values from pageHeight on are kept as pageHeight
Saturate(x) == IF ~x.nan /\ x.v > page.pageHeight THEN Num(page.pageHeight) ELSE x

\* null, and the state before any GET_PAGE_TEXT request
Null == [type |-> "null"]
NoTextResp == [mode |-> "none", ret |-> Null, resp |-> [sent |-> FALSE]]

\* ---------------------------------------------------------------- elements
\* a piece of text: what it says, its length and the TOC keywords that its
\* lower-cased form contains
Txt(s, len, kw) == [s |-> s, len |-> len, kw |-> kw]

\* a text is a sequence of pieces, one per line
RECURSIVE Chars(_)
Chars(t) == IF t = <<>> THEN 0 ELSE Head(t).len + Chars(Tail(t))
\* text.length
Length(t) == IF t = <<>> THEN 0 ELSE Chars(t) + Len(t) - 1
\* text.includes(k)
Includes(t, k) == \E i \in 1..Len(t) : k \in t[i].kw

\* an element: tag, class, id, role and alt attributes, computed position,
\* number of links below it, its own text and its child elements
Plain(tag) ==
  [tag |-> tag, cls |-> "", id |-> "", role |-> "", alt |-> <<>>,
   pos |-> "static", links |-> 0, text |-> <<>>, kids |-> <<>>]
Leaf(tag, t) == [Plain(tag) EXCEPT !.text = <<t>>]
Box(tag, kids) == [Plain(tag) EXCEPT !.kids = kids]

\* the pairs (part, whole) of attribute values with whole.includes(part)
SubstringOf ==
  { <<"toc", "toc">>, <<"toc", "page-toc">>, <<"contents", "contents">>,
    <<"outline", "outline">> }
Has(whole, part) == <<part, whole>> \in SubstringOf

RECURSIVE InnerText(_), KidsText(_)
\* element.innerText.trim()
InnerText(el) == el.text \o KidsText(el.kids)
KidsText(kids) ==
  IF kids = <<>> THEN <<>> ELSE InnerText(Head(kids)) \o KidsText(Tail(kids))

RECURSIVE Flatten(_)
\* querySelectorAll('*') below a list of siblings: the elements in document
\* order
Flatten(kids) ==
  IF kids = <<>> THEN <<>>
  ELSE <<Head(kids)>> \o Flatten(Head(kids).kids) \o Flatten(Tail(kids))

\* CONFIG.EXCLUDE_SELECTORS of content-enhanced.js
Excluded(el) ==
  \/ el.tag \in {"nav", "header", "footer", "script", "style", "noscript", "meta", "link"}
  \/ el.cls \in {"nav", "navbar", "navigation", "header", "footer",
                 "cookie-banner", "advertisement", "ads", "social-share"}
  \/ el.role \in {"navigation", "banner", "contentinfo"}

RECURSIVE Sanitize(_)
\* the copy of the document after elements.forEach(el => el.remove())
Sanitize(kids) ==
  IF kids = <<>> THEN <<>>
  ELSE (IF Excluded(Head(kids)) THEN <<>>
        ELSE <<[Head(kids) EXCEPT !.kids = Sanitize(@)]>>) \o Sanitize(Tail(kids))

\* CONFIG.MAIN_CONTENT_SELECTORS
MAIN_CONTENT_SELECTORS ==
  <<"main", "[role=main]", ".main-content", "#main", ".content", "article">>

MainMatches(sel, el) ==
  CASE sel = "main" -> el.tag = "main"
    [] sel = "[role=main]" -> el.role = "main"
    [] sel = ".main-content" -> el.cls = "main-content"
    [] sel = "#main" -> el.id = "main"
    [] sel = ".content" -> el.cls = "content"
    [] sel = "article" -> el.tag = "article"

\* no element
NoElement == Plain("")

\* doc.querySelector(selector)
QuerySelector(kids, sel) ==
  LET found == SelectSeq(Flatten(kids), LAMBDA el : MainMatches(sel, el))
  IN  IF found = <<>> THEN NoElement ELSE Head(found)

RECURSIVE FirstMain(_, _, _)
\* the loop over mainSelectors from the i-th on
FirstMain(kids, sels, i) ==
  IF i > Len(sels) THEN NoElement
  ELSE IF QuerySelector(kids, sels[i]) # NoElement
       THEN QuerySelector(kids, sels[i])
       ELSE FirstMain(kids, sels, i + 1)

\* the main content element, if any
MainContentInDocumentOrder(kids) ==
  LET found == SelectSeq(Flatten(kids),
                      LAMBDA el : \E i \in 1..Len(MAIN_CONTENT_SELECTORS) :
                                    MainMatches(MAIN_CONTENT_SELECTORS[i], el))
  IN  IF found = <<>> THEN NoElement ELSE Head(found)
MainContent(kids) == FirstMain(kids, MAIN_CONTENT_SELECTORS, 1)

\* the content element of a document: main content, else the body, else none
ContentElement(d) ==
  LET kids == Sanitize(d.kids)
      main == MainContent(kids)
  IN  IF main # NoElement THEN main
      ELSE IF d.body THEN Box("body", kids)
      ELSE NoElement

\* extractSimpleText: its own exclusion list and selectors; the text of the
\* first main element found or, when that is empty, of the body
ExcludedSimple(el) ==
  \/ el.tag \in {"nav", "header", "footer", "aside", "script", "style", "noscript", "meta", "link"}
  \/ el.cls \in {"nav", "navbar", "navigation", "header", "footer", "sidebar"}
  \/ el.role \in {"navigation", "banner", "contentinfo"}

RECURSIVE SanitizeSimple(_)
SanitizeSimple(kids) ==
  IF kids = <<>> THEN <<>>
  ELSE (IF ExcludedSimple(Head(kids)) THEN <<>>
        ELSE <<[Head(kids) EXCEPT !.kids = SanitizeSimple(@)]>>) \o SanitizeSimple(Tail(kids))

ExtractSimpleText(d) ==
  LET kids == SanitizeSimple(d.kids)
      main == FirstMain(kids, SubSeq(MAIN_CONTENT_SELECTORS, 1, 5), 1)
  IN  IF main # NoElement /\ InnerText(main) # <<>> THEN InnerText(main)
      ELSE IF d.body THEN KidsText(kids)
      ELSE <<>>

\* ----------------------------------------------------- extractTOCElements
\* CONFIG.TOC_SELECTORS
TOC_SELECTORS ==
  <<"[class*=toc]", "[id*=toc]", "[class*=table-of-contents]", "[class*=contents]",
    "[class*=outline]", "aside", ".right-sidebar", ".left-sidebar", ".sidebar">>

TocMatches(sel, el) ==
  CASE sel = "[class*=toc]" -> Has(el.cls, "toc")
    [] sel = "[id*=toc]" -> Has(el.id, "toc")
    [] sel = "[class*=table-of-contents]" -> Has(el.cls, "table-of-contents")
    [] sel = "[class*=contents]" -> Has(el.cls, "contents")
    [] sel = "[class*=outline]" -> Has(el.cls, "outline")
    [] sel = "aside" -> el.tag = "aside"
    [] sel = ".right-sidebar" -> el.cls = "right-sidebar"
    [] sel = ".left-sidebar" -> el.cls = "left-sidebar"
    [] sel = ".sidebar" -> el.cls = "sidebar"

\* the keywords of the selector pass and of the positioned pass
SelectorKeywords ==
  {"on this page", "contents", "outline", "in this article", "table of contents"}
PositionedKeywords == {"on this page", "contents", "outline"}

\* a TOC node; el, here and in the nodes of processElement, records the
\* element the node was made from
TocNode(el, selector) ==
  [type |-> "table_of_contents", content |-> InnerText(el), selector |-> selector,
   depth |-> 0, el |-> el]

\* the selector pass keeps an element
TocLike(el) ==
  /\ Length(InnerText(el)) > 20
  /\ \/ \E k \in SelectorKeywords : Includes(InnerText(el), k)
     \/ el.links >= 3

RECURSIVE SelectorPass(_, _)
\* tocSelectors.forEach from the i-th selector on, over the elements all
SelectorPass(all, i) ==
  IF i > Len(TOC_SELECTORS) THEN <<>>
  ELSE LET found == SelectSeq(all, LAMBDA el : TocMatches(TOC_SELECTORS[i], el) /\ TocLike(el))
       IN  [j \in 1..Len(found) |-> TocNode(found[j], TOC_SELECTORS[i])]
             \o SelectorPass(all, i + 1)

\* the element the positioned pass reads the style of: the first with the
\* same id or, without id, the first of the same class and text
OriginalOf(all, el) ==
  LET byId == SelectSeq(all, LAMBDA e : e.id = el.id)
      byClass == SelectSeq(all, LAMBDA e : e.cls = el.cls /\ InnerText(e) = InnerText(el))
  IN  IF el.id # "" THEN Head(byId)
      ELSE IF el.cls # "" /\ byClass # <<>> THEN Head(byClass)
      ELSE NoElement

\* the positioned pass keeps an element
Positioned(all, el) ==
  /\ OriginalOf(all, el) # NoElement
  /\ OriginalOf(all, el).pos \in {"fixed", "absolute"}
  /\ Length(InnerText(el)) > 50
  /\ \E k \in PositionedKeywords : Includes(InnerText(el), k)

\* Array.from(allElements).forEach
PositionedPass(all) ==
  LET found == SelectSeq(all, LAMBDA el : Positioned(all, el))
  IN  [j \in 1..Len(found) |-> TocNode(found[j], "positioned")]

\* extractTOCElements(document): the document before anything is removed
ExtractTOCElementsPositionedFirst(d) == PositionedPass(Flatten(d.kids)) \o SelectorPass(Flatten(d.kids), 1)
ExtractTOCElements(d) == SelectorPass(Flatten(d.kids), 1) \o PositionedPass(Flatten(d.kids))

\* --------------------------------------------------------- processElement
MediaTypes == {"img", "video", "audio", "canvas", "svg"}
Headings == {"h1", "h2", "h3", "h4", "h5", "h6"}
Level(tag) == CHOOSE n \in 1..6 : tag = <<"h1", "h2", "h3", "h4", "h5", "h6">>[n]

RECURSIVE ExtractListItems(_)
\* extractListItems: the li children with text, each with the items of the
\* first list below it
ExtractListItems(list) ==
  LET lis == SelectSeq(list.kids, LAMBDA e : e.tag = "li" /\ InnerText(e) # <<>>)
      Nested(li) == SelectSeq(Flatten(li.kids), LAMBDA e : e.tag \in {"ul", "ol"})
  IN  [j \in 1..Len(lis) |->
         IF Nested(lis[j]) = <<>>
         THEN [content |-> InnerText(lis[j]), nested |-> <<>>, hasNested |-> FALSE]
         ELSE [content |-> InnerText(lis[j]),
               nested |-> ExtractListItems(Head(Nested(lis[j]))), hasNested |-> TRUE]]

\* the texts of the cells below a row that satisfy a test
CellTexts(row, Test(_)) ==
  LET cells == SelectSeq(row.kids, LAMBDA c : c.tag \in {"td", "th"} /\ Test(c) /\ InnerText(c) # <<>>)
  IN  [j \in 1..Len(cells) |-> InnerText(cells[j])]

RECURSIVE Join(_)
Join(texts) == IF texts = <<>> THEN <<>> ELSE Head(texts) \o Join(Tail(texts))

\* extractTableData for a table made of thead and tbody sections with rows:
\* 'thead th, thead td, tr:first-child th' and 'tbody tr'
ExtractTableData(table) ==
  LET Rows(sec) == SelectSeq(sec.kids, LAMBDA r : r.tag = "tr")
      HeaderOf(sec) ==
        Join([j \in 1..Len(Rows(sec)) |->
                CellTexts(Rows(sec)[j],
                          LAMBDA c : sec.tag = "thead" \/ (c.tag = "th" /\ Rows(sec)[j] = Head(sec.kids)))])
      RowsOf(sec) ==
        IF sec.tag # "tbody" THEN <<>>
        ELSE SelectSeq([j \in 1..Len(Rows(sec)) |-> CellTexts(Rows(sec)[j], LAMBDA c : TRUE)],
                    LAMBDA cells : cells # <<>>)
  IN  [headers |-> Join([i \in 1..Len(table.kids) |-> HeaderOf(table.kids[i])]),
       rows |-> Join([i \in 1..Len(table.kids) |-> RowsOf(table.kids[i])])]

\* extractImageData: the caption is looked up below the image's parent
ExtractImageData(img, parent) ==
  LET caps == SelectSeq(Flatten(parent.kids),
                     LAMBDA e : e.tag = "figcaption" \/ e.cls \in {"caption", "image-caption"})
      caption == IF caps = <<>> THEN <<>> ELSE InnerText(Head(caps))
  IN  IF img.alt # <<>> \/ caption # <<>>
      THEN <<[type |-> "image", alt |-> img.alt, caption |-> caption, depth |-> 0, el |-> img]>>
      ELSE <<>>

\* /language-(\w+)/ on the class name
Language(cls) == IF cls = "language-js" THEN Txt("js", 2, {}) ELSE Txt("text", 4, {})

\* the container test of the div/section/article case
TocContainer(el) ==
  \/ Has(el.cls, "toc") \/ Has(el.cls, "table-of-contents") \/ Has(el.id, "toc")
  \/ Includes(InnerText(el), "on this page")

RECURSIVE ProcessElement(_, _, _), ProcessChildren(_, _, _)
\* processElement(element, sections, depth): the nodes it pushes; parent is
\* element.parentElement
ProcessElement(el, parent, depth) ==
  LET textContent == InnerText(el)
      node == [depth |-> depth, el |-> el]
  IN  IF textContent = <<>> /\ el.tag \notin MediaTypes THEN <<>>
      ELSE IF el.tag \in Headings
        THEN <<node @@ [type |-> "heading", level |-> Level(el.tag), content |-> textContent]>>
      ELSE IF el.tag = "p"
        THEN IF Length(textContent) > 10
             THEN <<node @@ [type |-> "paragraph", content |-> textContent]>>
             ELSE <<>>
      ELSE IF el.tag \in {"ul", "ol"}
        THEN IF ExtractListItems(el) # <<>>
             THEN <<node @@ [type |-> IF el.tag = "ul" THEN "unordered_list" ELSE "ordered_list",
                             items |-> ExtractListItems(el)]>>
             ELSE <<>>
      ELSE IF el.tag = "table"
        THEN IF ExtractTableData(el).rows # <<>>
             THEN <<node @@ [type |-> "table", headers |-> ExtractTableData(el).headers,
                             rows |-> ExtractTableData(el).rows]>>
             ELSE <<>>
      ELSE IF el.tag = "img" THEN ExtractImageData(el, parent)
      ELSE IF el.tag = "blockquote"
        THEN <<node @@ [type |-> "quote", content |-> textContent]>>
      ELSE IF el.tag \in {"code", "pre"}
        THEN <<node @@ [type |-> "code", content |-> textContent, language |-> Language(el.cls)]>>
      ELSE IF el.tag \in {"div", "section", "article"} /\ TocContainer(el)
        THEN <<node @@ [type |-> "table_of_contents", content |-> textContent]>>
      ELSE ProcessChildren(el.kids, el, depth + 1)
\* Array.from(element.children).forEach(child => processElement(child, ..))
ProcessChildren(kids, parent, depth) ==
  IF kids = <<>> THEN <<>>
  ELSE ProcessElement(Head(kids), parent, depth) \o ProcessChildren(Tail(kids), parent, depth)

\* extractElementContent(element, tocElements)
ExtractElementContent(d, el, tocElements) ==
  [sections |-> tocElements \o ProcessElement(el, NoElement, 0),
   metadata |-> [title |-> d.title, url |-> d.url]]

\* -------------------------------------------------- formatStructuredContent
\* The formatted text is a sequence of lines: the number of two-space
\* indents, the template's literal ("fence" for the three backquotes, "*"
\* for the bullet) and the text put after it (the cells of a table row one
\* after the other).
Line(indent, literal, body) == [indent |-> indent, literal |-> literal, body |-> body]
BlankLine == Line(0, "", <<>>)

\* '#'.repeat(level) and `${index + 1}.`
Hashes == <<"#", "##", "###", "####", "#####", "######">>
Ordinal(i) == <<"1.", "2.", "3.", "4.">>[i]

\* the lines of one list item and of its nested items
ItemLines(section, i) ==
  LET item == section.items[i] IN
  <<Line(section.depth, IF section.type = "ordered_list" THEN Ordinal(i) ELSE "*", item.content)>>
  \o (IF item.hasNested
      THEN [j \in 1..Len(item.nested) |-> Line(section.depth + 1, "*", item.nested[j].content)]
      ELSE <<>>)

\* the switch over section.type
SectionLines(section) ==
  CASE section.type = "heading" ->
         <<Line(0, Hashes[section.level], section.content), BlankLine>>
    [] section.type = "paragraph" ->
         <<Line(section.depth, "", section.content), BlankLine>>
    [] section.type \in {"unordered_list", "ordered_list"} ->
         Join([i \in 1..Len(section.items) |-> ItemLines(section, i)]) \o <<BlankLine>>
    [] section.type = "table" ->
         (IF section.headers # <<>>
          THEN <<Line(section.depth, "Table Headers:", Join(section.headers))>> ELSE <<>>)
         \o [i \in 1..Len(section.rows) |-> Line(section.depth, "", Join(section.rows[i]))]
         \o <<BlankLine>>
    [] section.type = "image" ->
         IF section.alt # <<>> \/ section.caption # <<>>
         THEN <<Line(section.depth, "[Image:",
                     IF section.alt # <<>> THEN section.alt ELSE section.caption),
                BlankLine>>
         ELSE <<>>
    [] section.type = "quote" ->
         <<Line(section.depth, ">", section.content), BlankLine>>
    [] section.type = "code" ->
         <<Line(section.depth, "fence", <<section.language>>),
           Line(0, "", section.content), Line(0, "fence", <<>>), BlankLine>>
    [] section.type = "table_of_contents" ->
         <<Line(section.depth, "TABLE OF CONTENTS:", <<>>),
           Line(0, "", section.content), BlankLine>>
    [] OTHER -> <<>>

RECURSIVE TrimEnd(_), TrimStart(_)
\* .trim(): blank lines at both ends go, and so does the first line's indent
TrimEnd(lines) ==
  IF lines # <<>> /\ lines[Len(lines)] = BlankLine
  THEN TrimEnd(SubSeq(lines, 1, Len(lines) - 1)) ELSE lines
TrimStart(lines) ==
  IF lines = <<>> THEN <<>>
  ELSE IF Head(lines) = BlankLine THEN TrimStart(Tail(lines))
  ELSE <<[Head(lines) EXCEPT !.indent = 0]>> \o Tail(lines)

\* the header written when the document has metadata
HeaderNone(doc) == <<>>
Header(doc) ==
  <<Line(0, "Page:", <<doc.metadata.title>>), Line(0, "URL:", <<doc.metadata.url>>),
    BlankLine>>

\* formatStructuredContent(structuredData)
FormatDocument(doc) ==
  TrimStart(TrimEnd(Header(doc)
                    \o Join([i \in 1..Len(doc.sections) |-> SectionLines(doc.sections[i])])))

\* ------------------------------------------------------- the element trees
Title == Txt("Title", 5, {})
Hello == Txt("Hello world text content here", 29, {})
Hi == Txt("Hi", 2, {})
Menu == Txt("Home About Contact", 18, {})
SiteContents == Txt("Site contents and sections", 26, {"contents"})
Contents == Txt("Contents: intro and usage", 25, {"contents"})
Logo == Txt("Logo", 4, {})
\* a text of 60 characters that contains the keyword k, if it is one
Long(k) ==
  Txt(k, 60, IF k = "table of contents" THEN {k, "contents"}
             ELSE IF k \in SelectorKeywords THEN {k} ELSE {})
ShortOutline == Txt("Page outline", 12, {"outline"})

H1 == Leaf("h1", Title)
P == Leaf("p", Hello)
\* an element that floats over the page
Floating(t) == [Leaf("div", t) EXCEPT !.id = "float", !.pos = "fixed"]
Aside == Leaf("aside", Contents)
PageToc == [Leaf("div", Contents) EXCEPT !.cls = "page-toc"]
List(tag) ==
  Box(tag, <<Leaf("li", Hello),
             [Leaf("li", Title) EXCEPT !.kids = <<Box("ul", <<Leaf("li", Hi)>>)>>]>>)
Table ==
  Box("table", <<Box("thead", <<Box("tr", <<Leaf("th", Title)>>)>>),
                 Box("tbody", <<Box("tr", <<Leaf("td", Hello), Leaf("td", Hi)>>)>>)>>)

RECURSIVE Nest(_, _)
\* el below d nested div elements
Nest(d, el) == IF d = 0 THEN el ELSE Box("div", <<Nest(d - 1, el)>>)

\* a section with one element of every kind the walker tells apart, a short
\* paragraph and two navigation elements
Rich ==
  Box("section",
      <<Leaf("p", Hi), Leaf("nav", Menu),
        [Leaf("div", Menu) EXCEPT !.role = "navigation", !.links = 3],
        List("ul"), List("ol"), Table, Leaf("blockquote", Hello),
        [Leaf("pre", Hello) EXCEPT !.cls = "language-js"],
        [Plain("img") EXCEPT !.alt = <<Logo>>],
        Box("figure", <<Plain("img"), Leaf("figcaption", Title)>>)>>)

\* the elements a page is made of
Elements ==
  { H1, P, Aside, PageToc,
    [Leaf("nav", SiteContents) EXCEPT !.cls = "toc"],
    Floating(ShortOutline),
    Box("main", <<Aside, Floating(Long("on this page")), H1, P>>),
    [Box("div", <<P>>) EXCEPT !.role = "main"],
    [Box("div", <<P>>) EXCEPT !.cls = "main-content"],
    [Box("div", <<P>>) EXCEPT !.id = "main"],
    [Box("div", <<P>>) EXCEPT !.cls = "content"],
    Box("article", <<H1, Rich>>),
    Box("header", <<Box("main", <<P>>)>>),
    Nest(MaxDepth, P) }
  \cup { Floating(Long(k)) : k \in {"outline", "in this article", "table of contents", "none"} }

\* a document: whether it has a body, its title and address, and the
\* elements at its top (one at most in a document without body)
NoDom ==
  [body |-> TRUE, title |-> Txt("Page title", 10, {}), url |-> Txt("u1", 2, {}),
   kids |-> <<>>]
Doms ==
  { [NoDom EXCEPT !.kids = kids] : kids \in UNION { [1..n -> Elements] : n \in 0..MaxKids } }
  \cup { [NoDom EXCEPT !.body = FALSE, !.kids = kids] :
            kids \in UNION { [1..n -> Elements] : n \in 0..1 } }

\* no GET_PAGE_TEXT request has been answered
NoWalk ==
  [calls |-> 0,           \* requests answered
   mode |-> "none",       \* the mode of the last one
   success |-> FALSE,     \* the success field of its response
   cached |-> FALSE,      \* the extraction returned the cached document
   root |-> NoElement,    \* the content element of the last structured extraction
   doc |-> Null,          \* the value extractStructuredContent returned
   text |-> <<>>]         \* the text of the response

\* ------------------------------------------------------------- the popup
NoSession == [active |-> FALSE, pages |-> <<>>]
\* the content scanned last, and the lengths of the session context and of
\* the whole page context of the last request
\* page data of no page: what stands for a scannedContent of null
UnscannedPage == [url |-> "", address |-> "", urlLength |-> 2, titleLength |-> 10, text |-> 0]
NoPrompt == [scannedContent |-> UnscannedPage,
             asked |-> FALSE, session |-> 0, context |-> 0]
\* chrome.storage.sync without keys; "" for no apiProvider
EmptyStorage == [openaiApiKey |-> Null, geminiApiKey |-> Null, apiProvider |-> ""]

\* the last call of saveAPIKey: how many there were, who made it, its
\* arguments and its outcome; here, none has been made
NoSave == [calls |-> 0, caller |-> "", provider |-> "", apiKey |-> Null, outcome |-> "none"]

\* what a run of handleAskQuestion sends to the provider; here, nothing
NoSent == [content |-> UnscannedPage,
           apiKey |-> Null, model |-> "", session |-> FALSE, scanned |-> FALSE,
           auto |-> UnscannedPage,
           scanPage |-> UnscannedPage]
\* the popup's ask controls as it opens. pc is where the run of
\* handleAskQuestion stands ("idle" between runs, else the await it is
\* at), session its isStudySessionActive, scanned whether its auto-scan
\* stored content and auto that content, on whether it called
\* setLoading(true), outcome how the
\* last run ended and sent what the last run passed to the provider;
\* loadingDiv is loadingDiv.style.display, disabled and textContent are
\* the Ask button's; scanPage is the content stored by the last run of
\* handleScanPage
NoAsk == [pc |-> "idle", runs |-> 0, model |-> "", session |-> FALSE, scanned |-> FALSE,
          auto |-> UnscannedPage, on |-> FALSE, outcome |-> "none", sent |-> NoSent,
          loadingDiv |-> "none", disabled |-> FALSE, textContent |-> "Ask Question",
          scanPage |-> UnscannedPage]

\* no call of truncateText made
NoTruncation == [calls |-> 0, text |-> <<>>, maxLength |-> 0, result |-> <<>>]

\* the Reset All Data button as the popup opens: init() has registered one
\* click listener that calls resetAllData. timers are the setTimeout
\* callbacks not yet run, clock the time in milliseconds, clicks the
\* number of clicks so far, armedAt the time of the last click made on the
\* initial label (-1: none), and last what the last click saw and did
NoReset == [textContent |-> "Reset All Data",
            listeners |-> <<[handler |-> "resetAllData", once |-> FALSE]>>,
            timers |-> {}, clock |-> 0, clicks |-> 0, armedAt |-> -1, clears |-> 0,
            last |-> [at |-> 0, textContent |-> "", asked |-> FALSE, cleared |-> FALSE]]

\* setLoading(isLoading, message, buttonType) on the ask controls: the
\* scan button is not part of them
SetLoading(a, isLoading, message, buttonType) ==
  IF buttonType = "scan"
  THEN [a EXCEPT !.loadingDiv = IF isLoading THEN "block" ELSE "none"]
  ELSE [a EXCEPT !.disabled = isLoading,
                 !.textContent = IF isLoading THEN message ELSE "Ask Question",
                 !.loadingDiv = IF isLoading THEN "block" ELSE "none"]

\* updateButtonStates(): in a study session the Ask button is disabled
\* until a page is scanned, in casual mode it is enabled
UpdateButtonStates(a, session, scannedContent) ==
  [a EXCEPT !.disabled = IF session.active THEN scannedContent = NoPrompt.scannedContent
                         ELSE FALSE]

\* a page that has just loaded one of scripts: its dimensions are one of
\* pages and its document one of docs
Loaded(scripts, pages, docs) ==
  /\ script \in scripts
  /\ page \in pages
  /\ document \in docs
  /\ cachedPageText = Null
  /\ lastExtractionTime = 0
  /\ textResp = NoTextResp
  /\ scrollY \in {y \in UserOffsets : y <= page.maxScrollY}
  /\ userScrolls = 0
  /\ viewportTracker = "null"
  /\ trackers = [i \in TrackerIds |-> NewTracker]
  /\ listeners = 0
  /\ pendingScroll = 0
  /\ pending = EmptyBag
  /\ request = IdleTask
  /\ injected = 1
  /\ now = 0
  /\ lazy = NoWait
  /\ syncResp = NoSync

\* the popup as it opens: no session, no request made, nothing stored
Opened ==
  /\ studySession = NoSession
  /\ prompt = NoPrompt
  /\ storage = EmptyStorage
  /\ saved = NoSave
  /\ ask = NoAsk
  /\ reset = NoReset
  /\ truncation = NoTruncation

\* ... with a page whose elements play no part
Start(scripts, pages, docs) ==
  /\ Loaded(scripts, pages, docs)
  /\ dom = NoDom
  /\ walk = NoWalk
  /\ Opened

Init == Start({"tracker", "visual"}, Pages, {BlankDoc})

\* ------------------------------------------------- the capture primitive
\* chrome.runtime.sendMessage({action: 'CAPTURE_SCREENSHOT'}) as answered by
\* the background script: {screenshot} of the visible tab, {error}, a reply
\* without image, or no reply at all (chrome.runtime.lastError)
Replies == {"ok", "empty", "error", "lastError"}

\* what the reply is to its callback: content-visual.js's
\* captureCurrentViewport tells lastError from a reply without image; the
\* tracker's captureScreenshot and captureNextViewport only ask whether
\* response.screenshot is there
ReplySeen(kind, r) == IF kind = "cv" \/ r = "ok" THEN r ELSE "null"

\* An invocation waits in "settle" (the tracker's waitForLazyContent), "timer"
\* (captureNextViewport's 500 ms) or "sent" until its request is sent and the
\* background has taken the image: the wait itself reads and writes nothing.
BgCapture ==
  /\ Ready
  /\ \E tk \in Waiting, r \in Replies :
       /\ tk.pc \in {"settle", "timer", "sent"}
       /\
          After(tk, [tk EXCEPT !.pc = "replied",
                               !.reply = ReplySeen(tk.kind, r),
                               !.failed = @ \/ (tk.kind = "fp" /\ r # "ok"),
                               !.shotAt = IF r = "ok" THEN scrollY ELSE 0])
  /\ UNCHANGED <<env, injected, scrollY, userScrolls, viewportTracker, trackers,
                 listeners, pendingScroll>>
  /\ syncResp' = NoSync

\* ------------------------------------------------------ the tracker script
\* return this.generateCompositeImage() and handleVisualRequest's response
Finish(tk, tr, y, n) ==
  [task |-> [tk EXCEPT !.pc = "done",
                       !.resp = VisualResponse("auto_scroll", GenerateCompositeImage(tr))],
   tracker |-> tr, scrollY |-> y, listeners |-> n]

\* the head of autoScrollAndCapture's loop: while (currentScroll < pageHeight)
\* { currentScroll += scrollStep; scrollTo(0, Math.min(..)); await timeout
LoopHead(tk, tr, y, n) ==
  IF NumLt(tk.currentScroll, Num(page.pageHeight))
  THEN LET cs == NumAdd(tk.currentScroll, tk.scrollStep)
           tgt == NumMin(cs, Num(page.pageHeight - page.innerHeight))
       IN  [task |-> [tk EXCEPT !.currentScroll = Saturate(cs),
                                !.target = Target(tgt),
                                !.pc = "pace"],
            tracker |-> tr, scrollY |-> ScrollTo(tgt), listeners |-> n]
  ELSE Finish(tk, tr, y, n)

\* the end of the loop body: break at the bottom of the page, else loop
LoopTail(tk, tr, y, n) ==
  IF y + page.innerHeight >= page.pageHeight
  THEN Finish(tk, tr, y, n)
  ELSE LoopHead(tk, tr, y, n)

\* what the caller of captureCurrentViewport does once the call has returned
AfterCapture(tk, tr, y, n) ==
  CASE tk.kind = "start" ->
         \* startTracking: addEventListener('scroll', ..); return true
         [task |-> [tk EXCEPT !.pc = "done", !.key = 0, !.last = "none",
                              !.resp = Success("", <<>>)],
          tracker |-> tr, scrollY |-> y, listeners |-> n + 1]
    [] tk.kind = "current" ->
         [task |-> [tk EXCEPT !.pc = "done",
                              !.resp = VisualResponse("current_viewport",
                                                      GenerateCompositeImage(tr))],
          tracker |-> tr, scrollY |-> y, listeners |-> n]
    [] tk.kind = "scroll" ->
         \* handleScroll: this.lastScrollY = currentScrollY
         [task |-> [tk EXCEPT !.pc = "done", !.key = 0, !.last = "none"],
          tracker |-> [tr EXCEPT !.lastScrollY = tk.key],
          scrollY |-> y, listeners |-> n]
    [] OTHER ->
         IF tk.stage = "first"
         THEN LoopHead([tk EXCEPT !.stage = "loop",
                                  !.scrollStep = FloorMul(page.innerHeight, VIEWPORT_OVERLAP),
                                  !.currentScroll = Num(0)], tr, y, n)
         ELSE LoopTail(tk, tr, y, n)

\* the call of captureCurrentViewport up to its first await: skip when the
\* offset already has an entry, else start waiting for lazy content
CallCapture(tk, tr, y, n) ==
  IF HasViewport(tr, y)
  THEN AfterCapture([tk EXCEPT !.key = y, !.last = "skipped"], tr, y, n)
  ELSE [task |-> [tk EXCEPT !.pc = "settle", !.key = y],
        tracker |-> tr, scrollY |-> y, listeners |-> n]

\* a scroll event is queued when the offset changes; with no listener on
\* window its dispatch runs no code
ScrollEvent(y, n) == IF y # scrollY /\ n > 0 THEN 1 ELSE pendingScroll

\* the state after invocation tk has run one turn
Apply(tk, r) ==
  /\ After(tk, r.task)
  /\ trackers' = [trackers EXCEPT ![TrackerOf(tk)] = r.tracker]
  /\ scrollY' = r.scrollY
  /\ listeners' = r.listeners
  /\ pendingScroll' = ScrollEvent(r.scrollY, r.listeners)

\* START_VIEWPORT_TRACKING: startViewportTracking and startTracking; once
\* startTracking has returned, the handler answers {success: true}
ReqStart ==
  /\ Ready
  /\ script = "tracker"
  /\ listeners + BagCardinality(pending) < MaxStarts
  /\ viewportTracker' = "set"
  /\ Apply([IdleTask EXCEPT !.kind = "start"],
           CallCapture([IdleTask EXCEPT !.kind = "start"],
                       [trackers["global"] EXCEPT !.isTracking = TRUE],
                       scrollY, listeners))
  /\ UNCHANGED <<env, injected, userScrolls>>
  /\ syncResp' = NoSync

\* STOP_VIEWPORT_TRACKING: stopViewportTracking and stopTracking; the
\* listener removed is a fresh bind(), so no registered listener goes away
ReqStop ==
  /\ Ready
  /\ script = "tracker"
  /\ IF viewportTracker = "set"
     THEN /\ trackers' = [trackers EXCEPT !["global"].isTracking = FALSE]
          /\ syncResp' = [action |-> "STOP_VIEWPORT_TRACKING", resp |-> Success("", <<>>)]
     ELSE /\ trackers' = trackers
          /\ syncResp' = [action |-> "STOP_VIEWPORT_TRACKING",
                          resp |-> Failure("No active tracking")]
  /\ UNCHANGED <<env, injected, scrollY, userScrolls, viewportTracker,
                 listeners, pendingScroll, pending, request>>

\* GET_COMPOSITE_IMAGE: getCompositeImage
CompositeResponse(exists, tr) ==
  IF ~exists THEN Failure("No viewport tracker available")
  ELSE VisualResponse("", GenerateCompositeImage(tr))

ReqComposite ==
  /\ Ready
  /\ script = "tracker"
  /\ syncResp' = [action |-> "GET_COMPOSITE_IMAGE",
                  resp |-> CompositeResponse(viewportTracker = "set", trackers["global"])]
  /\ UNCHANGED <<env, injected, scrollY, userScrolls, viewportTracker, trackers,
                 listeners, pendingScroll, pending, request>>

\* GET_PAGE_VISUAL with mode 'tracked': handleVisualRequest's third and last
\* branches
TrackedResponse(exists, tr) ==
  IF exists THEN VisualResponse("tracked", GenerateCompositeImage(tr))
  ELSE Failure("No viewport tracking data available")

ReqVisualTracked ==
  /\ Ready
  /\ script = "tracker"
  /\ VisualIdle
  /\ syncResp' = [action |-> "GET_PAGE_VISUAL",
                  resp |-> TrackedResponse(viewportTracker = "set", trackers["global"])]
  /\ UNCHANGED <<env, injected, scrollY, userScrolls, viewportTracker, trackers,
                 listeners, pendingScroll, pending, request>>

\* GET_PAGE_VISUAL with mode 'current_viewport': a new tracker captures once
ReqVisualCurrent ==
  /\ Ready
  /\ script = "tracker"
  /\ VisualIdle
  /\ Apply(request, CallCapture([IdleTask EXCEPT !.kind = "current"],
                                NewTracker, scrollY, listeners))
  /\ UNCHANGED <<env, injected, userScrolls, viewportTracker>>
  /\ syncResp' = NoSync

\* GET_PAGE_VISUAL with mode 'auto_scroll' (the default): a new tracker runs
\* autoScrollAndCapture, starting with scrollTo(0, 0) and the first capture
ReqVisualAuto ==
  /\ Ready
  /\ script = "tracker"
  /\ VisualIdle
  /\ Apply(request,
           CallCapture([IdleTask EXCEPT !.kind = "auto", !.stage = "first",
                                        !.target = Target(Num(0))],
                       NewTracker, ScrollTo(Num(0)), listeners))
  /\ UNCHANGED <<env, injected, userScrolls, viewportTracker>>
  /\ syncResp' = NoSync

\* the reply callback of captureScreenshot, the rest of
\* captureCurrentViewport and its caller up to the next await
Reply ==
  /\ Ready
  /\ script = "tracker"
  /\ \E tk \in Waiting :
       /\ tk.pc = "replied"
       /\ LET ok == tk.reply = "ok"
              tr == StoreViewport(trackers[TrackerOf(tk)], tk.key, ok, [at |-> tk.shotAt])
          IN  Apply(tk, AfterCapture([tk EXCEPT !.last = IF ok THEN "captured" ELSE "failed",
                                                !.reply = "none", !.shotAt = 0],
                                     tr, scrollY, listeners))
  /\ UNCHANGED <<env, injected, userScrolls, viewportTracker>>
  /\ syncResp' = NoSync

\* autoScrollAndCapture: the SCREENSHOT_WAIT timer and waitForLazyContent
\* have both elapsed, captureCurrentViewport is called at the offset the
\* window has now
Pace ==
  /\ Ready
  /\ request.pc = "pace"
  /\ Apply(request, CallCapture(request, trackers["request"], scrollY, listeners))
  /\ UNCHANGED <<env, injected, userScrolls, viewportTracker>>
  /\ syncResp' = NoSync

\* handleScroll: scrollDiff >= this.captureThreshold
ScrolledEnoughAlways(tr, y) == TRUE
ScrolledEnough(tr, y) == NumGe(Num(Abs(y - tr.lastScrollY)), CAPTURE_THRESHOLD)

\* handleScroll's test: tracking is on and the offset moved by the threshold
ScrollCapturesAlways(tr, y) == TRUE
ScrollCaptures(tr, y) == tr.isTracking /\ ScrolledEnough(tr, y)

\* the dispatch of one scroll event: the n registered listeners run
\* handleScroll one after the other, each up to its first await; a handler
\* that captures waits from there as an invocation of its own
RECURSIVE Dispatch(_, _, _)
Dispatch(n, bag, tr) ==
  IF n = 0 \/ ~ScrollCaptures(tr, scrollY) \/ BagCardinality(bag) >= MaxStarts
  THEN [pending |-> bag, tracker |-> tr]
  ELSE LET r == CallCapture([IdleTask EXCEPT !.kind = "scroll"], tr, scrollY, listeners)
       IN  Dispatch(n - 1,
                    IF r.task.pc = "done" THEN bag ELSE bag (+) SetToBag({r.task}),
                    r.tracker)

HandleScroll ==
  /\ Ready
  /\ script = "tracker"
  /\ pendingScroll > 0
  /\ LET d == Dispatch(listeners, pending, trackers["global"])
     IN  /\ pending' = d.pending
         /\ trackers' = [trackers EXCEPT !["global"] = d.tracker]
  /\ pendingScroll' = 0
  /\ UNCHANGED <<env, injected, scrollY, userScrolls, viewportTracker,
                 listeners, request>>
  /\ syncResp' = NoSync

\* the user scrolls the window
UserScroll(y) ==
  /\ Ready
  /\ userScrolls < MaxUserScrolls
  /\ y <= page.maxScrollY
  /\ y # scrollY
  /\ scrollY' = y
  /\ userScrolls' = userScrolls + 1
  /\ pendingScroll' = ScrollEvent(y, listeners)
  /\ UNCHANGED <<env, injected, viewportTracker, trackers, listeners, pending, request>>
  /\ syncResp' = NoSync

\* --------------------------------------------------------- content-visual.js
\* the popup scans again once the runs of its last scan are over
Scanned ==
  /\ VisualIdle
  /\ \A tk \in BagToSet(pending) : tk.pc = "done"

\* the message listener's last branch: an unsupported mode
VReqOther ==
  /\ Ready
  /\ script = "visual"
  /\ Scanned
  /\ syncResp' = [action |-> "GET_PAGE_VISUAL", resp |-> Failure("Unsupported mode")]
  /\ UNCHANGED <<env, injected, scrollY, userScrolls, viewportTracker, trackers,
                 listeners, pendingScroll, pending, request>>

\* A visual scan by the popup (getPageContent) first executes
\* content-visual.js in the page once more, which registers one more
\* onMessage listener.
Inject ==
  /\ Ready
  /\ script = "visual"
  /\ Scanned
  /\ injected < MaxScans
  /\ injected' = injected + 1
  /\ UNCHANGED <<env, scrollY, userScrolls, viewportTracker, trackers,
                 listeners, pendingScroll, pending, request, syncResp>>

\* GET_PAGE_VISUAL is handled by every registered listener, in order of
\* registration: the runs they start, each from the invocation run
Runs(run) ==
  /\ request' = run
  /\ pending' = SetToBag({[run EXCEPT !.listener = k] : k \in 2..injected})

\* mode 'current_viewport' (the default): captureCurrentViewport sends
\* CAPTURE_SCREENSHOT at once
VReqCurrent ==
  /\ Ready
  /\ script = "visual"
  /\ Scanned
  /\ Runs([IdleTask EXCEPT !.kind = "cv", !.pc = "sent"])
  /\ UNCHANGED <<env, injected, scrollY, userScrolls, viewportTracker, trackers,
                 listeners, pendingScroll>>
  /\ syncResp' = NoSync

\* mode 'auto_scroll': captureFullPageScroll up to its first setTimeout
VReqAuto ==
  /\ Ready
  /\ script = "visual"
  /\ Scanned
  /\ Runs([IdleTask EXCEPT !.kind = "fp", !.pc = "timer",
                  !.scrollStep = FloorMul(page.innerHeight, VISUAL_OVERLAP),
                  !.currentScroll = Num(0),
                  !.target = Target(Num(0))])
  /\ scrollY' = ScrollTo(Num(0))
  /\ pendingScroll' = ScrollEvent(ScrollTo(Num(0)), listeners)
  /\ UNCHANGED <<env, injected, userScrolls, viewportTracker, trackers,
                 listeners>>
  /\ syncResp' = NoSync

\* the reply callback of content-visual.js's captureCurrentViewport
CurrentReply(r, shot, y) ==
  IF r = "lastError" THEN Failure("Screenshot failed")
  ELSE IF r # "ok" THEN Failure("No screenshot received from background")
  ELSE Success("current_viewport",
               <<[scrollY |-> y, screenshot |-> shot, viewportHeight |-> page.innerHeight]>>)

\* captureNextViewport's test for being done
FullPageDone(y, shots) ==
  y + page.innerHeight >= page.pageHeight - BOTTOM_SLACK \/ Len(shots) > SAFETY_LIMIT

\* the reply callback inside captureNextViewport
FullPageReply(tk, y) ==
  LET shots == IF tk.reply = "ok"
               THEN Append(tk.screenshots,
                           [scrollY |-> y,
                            screenshot |-> [at |-> tk.shotAt],
                            viewportHeight |-> page.innerHeight])
               ELSE tk.screenshots
      cs == NumAdd(tk.currentScroll, tk.scrollStep)
      tgt == NumMin(cs, Num(page.pageHeight - page.innerHeight))
      tk1 == [tk EXCEPT !.screenshots = shots, !.currentScroll = Saturate(cs),
                        !.reply = "none", !.shotAt = 0]
  IN  IF FullPageDone(y, shots)
      THEN [task |-> [tk1 EXCEPT !.pc = "done", !.resp = Success("auto_scroll", shots)],
            scrollY |-> y]
      ELSE [task |-> [tk1 EXCEPT !.pc = "timer", !.target = Target(tgt)],
            scrollY |-> ScrollTo(tgt)]

VReply ==
  /\ Ready
  /\ script = "visual"
  /\ \E tk \in Waiting :
       /\ tk.pc = "replied"
       /\ IF tk.kind = "cv"
          THEN /\ After(tk, [tk EXCEPT !.pc = "done", !.reply = "none", !.shotAt = 0,
                                       !.resp = CurrentReply(tk.reply, [at |-> tk.shotAt],
                                                             scrollY)])
               /\ UNCHANGED <<scrollY, pendingScroll>>
          ELSE LET r == FullPageReply(tk, scrollY) IN
               /\ After(tk, r.task)
               /\ scrollY' = r.scrollY
               /\ pendingScroll' = ScrollEvent(r.scrollY, listeners)
  /\ UNCHANGED <<env, injected, userScrolls, viewportTracker, trackers,
                 listeners>>
  /\ syncResp' = NoSync

\* the turn of a synchronously answering handler ends
EndTurn ==
  /\ ~Ready
  /\ syncResp' = NoSync
  /\ UNCHANGED <<env, injected, scrollY, userScrolls, viewportTracker, trackers,
                 listeners, pendingScroll, pending, request>>

\* ------------------------------------------------------------ specification
Next ==
  \/ ReqStart
  \/ ReqStop
  \/ ReqComposite
  \/ ReqVisualTracked
  \/ ReqVisualCurrent
  \/ ReqVisualAuto
  \/ BgCapture
  \/ Reply
  \/ Pace
  \/ HandleScroll
  \/ \E y \in UserOffsets : UserScroll(y)
  \/ VReqOther
  \/ VReqCurrent
  \/ VReqAuto
  \/ VReply
  \/ EndTurn

Spec == Init /\ [][Next]_vars

\* one step of an invocation: the capture primitive's reply, a reply callback
\* or the end of a pause (an invocation has at most one of them enabled, and
\* it stays enabled until the invocation takes it)
TaskStep == BgCapture \/ Reply \/ Pace \/ VReply

\* the page receiving auto-scroll requests only: every behaviour of it is a
\* behaviour of Spec
AutoScrollNext ==
  \/ ReqVisualAuto
  \/ VReqAuto
  \/ TaskStep
  \/ \E y \in UserOffsets : UserScroll(y)

\* timers fire, the background answers every request and every reply
\* callback runs; requests and user scrolls may or may not come
AutoScrollSpec ==
  /\ Init
  /\ [][AutoScrollNext]_vars
  /\ WF_vars(TaskStep)

\* the tracker script under START/STOP_VIEWPORT_TRACKING and a user who
\* scrolls: every behaviour of it is a behaviour of Spec. Scroll events are
\* dispatched, the background answers every capture and every reply
\* callback runs.
ScrollInit == Init /\ script = "tracker"

ScrollNext ==
  \/ ReqStart
  \/ ReqStop
  \/ \E y \in UserOffsets : UserScroll(y)
  \/ HandleScroll
  \/ BgCapture
  \/ Reply
  \/ EndTurn

ScrollSpec ==
  /\ ScrollInit
  /\ [][ScrollNext]_vars
  /\ WF_vars(HandleScroll) /\ WF_vars(BgCapture) /\ WF_vars(Reply) /\ WF_vars(EndTurn)

\* ------------------------------------------------------ waitForLazyContent
\* setTimeout's delay: one that is not a number counts as 0
Delay(d) == IF d.nan THEN 0 ELSE d.v

\* the timeout fallback: setTimeout(resolve, timeout)
FallbackNever(t, timeout) == -1
Fallback(t, timeout) == t + Delay(timeout)

\* resolve(): settles the promise the first time it is called
Resolve(w) == IF w.pc = "waiting" THEN [w EXCEPT !.pc = "resolved", !.done = now] ELSE w

\* checkComplete
CheckComplete(w) ==
  LET w1 == [w EXCEPT !.imagesLoaded = @ + 1]
  IN  IF w1.imagesLoaded >= w1.n THEN Resolve(w1) ELSE w1

RECURSIVE CheckAll(_, _)
\* images.forEach over k images that are complete already
CheckAll(k, w) == IF k = 0 THEN w ELSE CheckAll(k - 1, CheckComplete(w))

\* waitForLazyContent() in a document with n lazy images, of which those in
\* complete have loaded already; the call before it is over and the clock
\* reaches as far as the call's timeout
WaitForLazyContent(n, complete) ==
  /\ lazy.pc \in {"idle", "resolved"}
  /\ lazy.timer = -1
  /\ now + Delay(LAZY_CONTENT_TIMEOUT) <= MaxTicks * TickMs
  /\ LET w == [NoWait EXCEPT !.pc = "waiting", !.start = now, !.n = n]
     IN  lazy' = IF n = 0
                 THEN [w EXCEPT !.timer = now + Delay(LAZY_LOADING_WAIT)]
                 ELSE [CheckAll(Cardinality(complete), w)
                         EXCEPT !.loading = (1..n) \ complete,
                                !.timer = Fallback(now, LAZY_CONTENT_TIMEOUT)]
  /\ UNCHANGED <<script, page, now, extraction, capture, aside>>

\* the load or error event of image i: the listeners are registered with
\* {once: true}
ImageEvent(i) ==
  /\ i \in lazy.loading
  /\ lazy' = CheckComplete([lazy EXCEPT !.loading = @ \ {i}])
  /\ UNCHANGED <<script, page, now, extraction, capture, aside>>

\* the call's timer is due and its callback (resolve) runs
TimerFires ==
  /\ lazy.timer # -1
  /\ lazy.timer <= now
  /\ lazy' = Resolve([lazy EXCEPT !.timer = -1])
  /\ UNCHANGED <<script, page, now, extraction, capture, aside>>

\* time passes; a timer that is due fires before the clock moves on
Tick ==
  /\ now < MaxTicks * TickMs
  /\ lazy.timer = -1 \/ now < lazy.timer
  /\ now' = now + TickMs
  /\ UNCHANGED <<script, page, lazy, extraction, capture, aside>>

\* the tracker script waiting for lazy content
LazyInit == Init /\ script = "tracker"

LazyNext ==
  \/ \E n \in 0..MaxImages : \E complete \in SUBSET (1..n) : WaitForLazyContent(n, complete)
  \/ \E i \in 1..MaxImages : ImageEvent(i)
  \/ TimerFires
  \/ Tick

\* time passes and timers fire; an image may never load
LazySpec == LazyInit /\ [][LazyNext]_vars /\ WF_vars(Tick) /\ WF_vars(TimerFires)

\* ------------------------------------------- content-enhanced.js, content.js
\* JavaScript truthiness of a cached artifact: null and '' are falsy
Truthy(a) == a.type = "object" \/ (a.type = "string" /\ a.text # "")

\* .replace(/\s+/g, ' ') ... .trim(), and innerText?.trim()
Clean(t) == IF t = " " THEN "" ELSE t

\* the text of the main element or, failing that, of the body, if any
VisibleText(d) == IF d.body THEN Clean(d.text) ELSE ""

\* extractElementContent at time t: sections of non-empty elements and the
\* metadata (new Date() in the turn that read Date.now())
Structured(d, t) ==
  [type |-> "object",
   sections |-> IF Clean(d.text) = "" THEN <<>> ELSE <<[type |-> "paragraph", content |-> Clean(d.text)]>>,
   url |-> d.url,
   timestamp |-> t]

\* extractStructuredContent's return value without content element
NoContent == [type |-> "object", success |-> FALSE, error |-> "No content found"]

\* what an extraction gives: its return value and the cache slot after it
Extraction(ret, cache, last) == [ret |-> ret, cache |-> cache, last |-> last]

\* the cache test of both scripts
Fresh(t, cache, last) == Truthy(cache) /\ t - last < CACHE_DURATION

\* extractStructuredContent's early return without content element
NoContentStamped(t, cache, last) == Extraction(NoContent, cache, t)
NoContentFound(t, cache, last) == Extraction(NoContent, cache, last)

\* extractStructuredContent() at time t
ExtractStructuredContent(d, t, cache, last) ==
  IF Fresh(t, cache, last) THEN Extraction(cache, cache, last)
  ELSE IF ~d.body THEN NoContentFound(t, cache, last)
  ELSE Extraction(Structured(d, t), Structured(d, t), t)

\* extractVisibleText() at time t
ExtractVisibleText(d, t, cache, last) ==
  LET a == [type |-> "string", text |-> VisibleText(d)]
  IN  IF Fresh(t, cache, last) THEN Extraction(cache, cache, last)
      ELSE Extraction(a, a, t)

\* formatStructuredContent: the page header and the sections; reading
\* .sections.forEach of a value without sections throws
Formats(a) == "sections" \in DOMAIN a
FormatStructuredContent(a) == [header |-> a.url, body |-> a.sections]

\* the listeners' responses
TextSuccess(mode, text, url) ==
  [sent |-> TRUE, success |-> TRUE, mode |-> mode, text |-> text, url |-> url]
TextFailure(error) == [sent |-> TRUE, success |-> FALSE, error |-> error]

\* the extraction has run: the slot and the request's record
Extracted(mode, e, resp) ==
  /\ cachedPageText' = e.cache
  /\ lastExtractionTime' = e.last
  /\ textResp' = [mode |-> mode, ret |-> e.ret, resp |-> resp]
  /\ UNCHANGED <<script, page, now, lazy, document, capture, aside>>

\* content-enhanced.js: GET_PAGE_TEXT in mode 'structured' (the default)
GetPageTextStructured ==
  /\ script = "enhanced"
  /\ LET e == ExtractStructuredContent(document, now, cachedPageText, lastExtractionTime)
     IN  Extracted("structured", e,
                   IF Formats(e.ret)
                   THEN TextSuccess("structured", FormatStructuredContent(e.ret), document.url)
                   ELSE TextFailure("TypeError"))

\* content-enhanced.js: GET_PAGE_TEXT in another mode: extractSimpleText
GetPageTextSimple ==
  /\ script = "enhanced"
  /\ Extracted("simple",
               Extraction(Null, cachedPageText, lastExtractionTime),
               TextSuccess("simple", VisibleText(document), document.url))

\* content.js: GET_PAGE_TEXT
GetPageText ==
  /\ script = "content"
  /\ LET e == ExtractVisibleText(document, now, cachedPageText, lastExtractionTime)
     IN  Extracted("text", e, TextSuccess("text", e.ret.text, document.url))

\* the page's content changes, or the page navigates within the same
\* document (the script and its cache stay)
PageChanges(d) ==
  /\ script \in {"enhanced", "content"}
  /\ d # document
  /\ document' = d
  /\ UNCHANGED <<script, page, now, lazy, cachedPageText, lastExtractionTime,
                 textResp, capture, aside>>

\* time passes
Elapse(d) ==
  /\ script \in {"enhanced", "content"}
  /\ now + d <= MaxCacheLives * CACHE_DURATION
  /\ now' = now + d
  /\ UNCHANGED <<script, page, lazy, extraction, capture, aside>>

\* the text scripts
TextInit == Start({"enhanced", "content"}, {CHOOSE p \in Pages : TRUE}, Docs)

TextNext ==
  \/ GetPageTextStructured
  \/ GetPageTextSimple
  \/ GetPageText
  \/ \E d \in Docs : PageChanges(d)
  \/ \E d \in Delays : Elapse(d)

TextSpec == TextInit /\ [][TextNext]_vars

\* ------------------------------- content-enhanced.js on a tree of elements
\* extractStructuredContent() at time t on the document d: the value it
\* returns, the cache slot after it and the content element it chose
ExtractStructuredContentOf(d, t, cache, last) ==
  LET root == ContentElement(d)
      doc == [type |-> "object"] @@ ExtractElementContent(d, root, ExtractTOCElements(d))
  IN  IF Fresh(t, cache, last)
      THEN [ret |-> cache, cache |-> cache, last |-> last, root |-> walk.root]
      ELSE IF root = NoElement
      THEN [ret |-> NoContent, cache |-> cache, last |-> last, root |-> root]
      ELSE [ret |-> doc, cache |-> doc, last |-> t, root |-> root]

\* a call of formatStructuredContent: the text it returns and the document
\* it was given, as the call leaves it
FormattedConsuming(doc) == [text |-> FormatDocument(doc), doc |-> [doc EXCEPT !.sections = <<>>]]
Formatted(doc) == [text |-> FormatDocument(doc), doc |-> doc]

\* GET_PAGE_TEXT in mode 'structured': the cached document is the object the
\* formatter is given
StructuredScan ==
  /\ script = "enhanced"
  /\ walk.calls < MaxCalls
  /\ \E e \in {ExtractStructuredContentOf(dom, now, cachedPageText, lastExtractionTime)} :
         IF Formats(e.ret)
         THEN \E f \in {Formatted(e.ret)} :
              /\ walk' = [calls |-> walk.calls + 1, mode |-> "structured", success |-> TRUE,
                          cached |-> Fresh(now, cachedPageText, lastExtractionTime),
                          root |-> e.root, doc |-> f.doc, text |-> f.text]
              /\ cachedPageText' = f.doc
              /\ lastExtractionTime' = e.last
         ELSE /\ walk' = [calls |-> walk.calls + 1, mode |-> "structured", success |-> FALSE,
                          cached |-> Fresh(now, cachedPageText, lastExtractionTime),
                          root |-> e.root, doc |-> e.ret, text |-> <<>>]
              /\ cachedPageText' = e.cache
              /\ lastExtractionTime' = e.last
  /\ UNCHANGED <<script, page, now, lazy, document, textResp, capture, dom, popup>>

\* GET_PAGE_TEXT in another mode
SimpleScan ==
  /\ script = "enhanced"
  /\ walk.calls < MaxCalls
  /\ \E t \in {ExtractSimpleText(dom)} :
       walk' = [calls |-> walk.calls + 1, mode |-> "simple", success |-> TRUE,
                cached |-> FALSE, root |-> walk.root, doc |-> Null,
                text |-> IF t = <<>> THEN <<>> ELSE <<Line(0, "", t)>>]
  /\ UNCHANGED <<script, page, now, lazy, extraction, capture, dom, popup>>

WalkInit ==
  /\ Loaded({"enhanced"}, {CHOOSE p \in Pages : TRUE}, {BlankDoc})
  /\ dom \in Doms
  /\ walk = NoWalk
  /\ Opened

WalkNext == StructuredScan \/ SimpleScan

WalkSpec == WalkInit /\ [][WalkNext]_vars

\* ---------------------------------------------- the popup's study session
\* Texts are modelled by their length. A scanned page: its address, the
\* lengths of its title and address, and the length of its text.
Urls == {"u1", "u2"}
TextLengths == {0, 5000, 12000, 20000}
\* the response of a text script for the page at url: url is its top-level
\* url field, address the location of the page it was read from
PageData(url, text) ==
  [url |-> url, address |-> url, urlLength |-> 2, titleLength |-> 10, text |-> text]
\* the response of content-visual.js for the page at url: the location and
\* the title are in data.pageInfo, there is no top-level url ("") and no
\* top-level title (length 0)
VisualData(url) ==
  [url |-> "", address |-> url, urlLength |-> 0, titleLength |-> 0, text |-> 0]
NoScan == PageData("", 0)

\* context.substring(0, CONFIG.MAX_CONTEXT_LENGTH)
Substring(length, limit) == IF length < limit THEN length ELSE limit

\* the index of the session page with an address, 0 (for -1) if there is
\* none
FindIndex(pages, url) ==
  IF \E i \in 1..Len(pages) : pages[i].url = url
  THEN CHOOSE i \in 1..Len(pages) :
         pages[i].url = url /\ \A j \in 1..(i - 1) : pages[j].url # url
  ELSE 0

RECURSIVE PagesLength(_, _)
\* the part of buildSessionContext written for the pages from the i-th on,
\* all scanned in the mode 'structured': '--- PAGE i: title ---', 'URL: ',
\* 'Extraction Mode: ' and 'Content:' with the page's text or 'No content'
PagesLength(pages, i) ==
  IF i > Len(pages) THEN 0
  ELSE 17 + pages[i].titleLength + 6 + pages[i].urlLength + 19 + 10
       + 11 + (IF pages[i].text = 0 THEN 10 ELSE pages[i].text)
       + PagesLength(pages, i + 1)

\* the length of buildSessionContext()
BuildSessionContext(session) ==
  IF ~session.active \/ session.pages = <<>> THEN 0
  ELSE 32 + 29 + PagesLength(session.pages, 1) + 29

\* the length of what formatRequest writes after the question: nothing for
\* an empty context, else the truncated context followed by the session
\* context
FormatRequest(context, sessionContext) ==
  IF context = 0 THEN 0
  ELSE Substring(context, MAX_CONTEXT_LENGTH) + sessionContext

StartStudySession ==
  /\ studySession' = [active |-> TRUE, pages |-> <<>>]
  /\ ask' = UpdateButtonStates(ask, studySession', prompt.scannedContent)
  /\ UNCHANGED <<script, page, now, lazy, extraction, capture, dom, walk, prompt, storage, saved,
                 reset,
                 truncation>>

EndStudySession ==
  /\ studySession.active
  /\ studySession' = [active |-> FALSE, pages |-> <<>>]
  /\ ask' = UpdateButtonStates(ask, studySession', prompt.scannedContent)
  /\ UNCHANGED <<script, page, now, lazy, extraction, capture, dom, walk, prompt, storage, saved,
                 reset,
                 truncation>>

\* the entry addPageToSession makes: pageData.url || 'unknown' and
\* pageData.title || 'Unknown Page', with the page data as content
PageInfo(pageData) ==
  [pageData EXCEPT !.url = IF @ = "" THEN "unknown" ELSE @,
                   !.urlLength = IF pageData.url = "" THEN 7 ELSE @,
                   !.titleLength = IF @ = 0 THEN 12 ELSE @]

\* addPageToSession(pageData, extractionMode)
AddPageToSession(session, pageData) ==
  IF ~session.active THEN session
  ELSE IF FindIndex(session.pages, PageInfo(pageData).url) > 0
  THEN [session EXCEPT
          !.pages[FindIndex(session.pages, PageInfo(pageData).url)] = PageInfo(pageData)]
  ELSE [session EXCEPT !.pages = Append(@, PageInfo(pageData))]

\* handleScanPage in a text mode on a page that answers with text
HandleScanPage ==
  \E url \in Urls, text \in TextLengths :
    /\ Len(AddPageToSession(studySession, PageData(url, text)).pages) <= MaxPages
    /\ studySession' = AddPageToSession(studySession, PageData(url, text))
    /\ prompt' = [prompt EXCEPT !.scannedContent = PageData(url, text)]
    /\ ask' = UpdateButtonStates([SetLoading(ask, FALSE, "", "scan") EXCEPT
                                    !.scanPage = PageData(url, text)],
                                 studySession', PageData(url, text))
    /\ UNCHANGED <<script, page, now, lazy, extraction, capture, dom, walk, storage, saved,
                   reset,
                   truncation>>

\* handleAskQuestion with scanned text: the provider's formatRequest
HandleAskQuestion ==
  /\ prompt.scannedContent # NoScan
  /\ prompt' = [prompt EXCEPT
                  !.asked = TRUE,
                  !.session = BuildSessionContext(studySession),
                  !.context = FormatRequest(prompt.scannedContent.text,
                                            BuildSessionContext(studySession))]
  /\ UNCHANGED <<script, page, now, lazy, extraction, capture, dom, walk, studySession,
                 storage, saved, ask, reset,
                 truncation>>

ContextInit ==
  /\ Loaded({"enhanced"}, {CHOOSE p \in Pages : TRUE}, {BlankDoc})
  /\ dom = NoDom
  /\ walk = NoWalk
  /\ Opened

ContextNext == StartStudySession \/ EndStudySession \/ HandleScanPage \/ HandleAskQuestion

ContextSpec == ContextInit /\ [][ContextNext]_vars

\* ------------------------------------------------------ the API key store
\* A key is modelled by what the patterns look at: its prefix, the number
\* of characters after the prefix, and whether those are all of
\* [a-zA-Z0-9_-].
Key(prefix, length, clean) == [prefix |-> prefix, length |-> length, clean |-> clean]
EmptyKey == Key("", 0, TRUE)
\* APIKeyManager.MASKED_VALUE: sixteen bullets
MASKED_VALUE == Key("", 16, FALSE)
\* the values a caller passes: no string at all, the empty string, the
\* masked placeholder and keys around the patterns' limits
Keys ==
  { Null, EmptyKey, MASKED_VALUE,
    Key("sk-", 19, TRUE), Key("sk-", 20, TRUE), Key("sk-", 20, FALSE), Key("pk-", 20, TRUE),
    Key("AIza", 34, TRUE), Key("AIza", 35, TRUE), Key("AIza", 36, TRUE) }
\* the provider names of the key map and one that is not in it
Providers == {"openai", "gemini", "other"}

\* CONFIG.API_KEY_PATTERNS
OPENAI(apiKey) == apiKey.prefix = "sk-" /\ apiKey.length >= 20 /\ apiKey.clean
GEMINI(apiKey) == apiKey.prefix = "AIza" /\ apiKey.length = 35 /\ apiKey.clean

\* validateAPIKey(apiKey, provider)
ValidateAPIKeyPrefixOnly(apiKey, provider) ==
  IF apiKey = Null \/ apiKey = EmptyKey THEN FALSE
  ELSE CASE provider = "openai" -> apiKey.prefix = "sk-"
         [] provider = "gemini" -> apiKey.prefix = "AIza"
         [] OTHER -> FALSE
ValidateAPIKey(apiKey, provider) ==
  IF apiKey = Null \/ apiKey = EmptyKey THEN FALSE
  ELSE CASE provider = "openai" -> OPENAI(apiKey)
         [] provider = "gemini" -> GEMINI(apiKey)
         [] OTHER -> FALSE

\* getStorageKey(provider): "" for undefined
GetStorageKey(provider) ==
  CASE provider = "openai" -> "openaiApiKey"
    [] provider = "gemini" -> "geminiApiKey"
    [] OTHER -> ""

\* saveAPIKey(provider, apiKey) on a store; ok tells whether
\* chrome.storage.sync.set succeeds
SaveAPIKeyOf(store, provider, apiKey, ok) ==
  IF GetStorageKey(provider) = "" THEN [outcome |-> "false", storage |-> store]
  ELSE IF ~ValidateAPIKey(apiKey, provider) THEN [outcome |-> "raised", storage |-> store]
  ELSE IF ~ok THEN [outcome |-> "false", storage |-> store]
  ELSE [outcome |-> "true",
        storage |-> [store EXCEPT !.apiProvider = provider, ![GetStorageKey(provider)] = apiKey]]

\* a call of APIKeyManager.saveAPIKey
SaveAPIKey ==
  \E provider \in Providers, apiKey \in Keys, ok \in BOOLEAN :
    /\ saved.calls < MaxSaves
    /\ \E r \in {SaveAPIKeyOf(storage, provider, apiKey, ok)} :
         /\ storage' = r.storage
         /\ saved' = [calls |-> saved.calls + 1, caller |-> "manager", provider |-> provider,
                      apiKey |-> apiKey, outcome |-> r.outcome]
    /\ UNCHANGED <<script, page, now, lazy, extraction, capture, dom, walk, studySession, prompt,
                   ask, reset,
                   truncation>>

\* the popup's saveApiKey for one of its two key inputs: an empty or masked
\* input is turned down before saveAPIKey is called, and setCurrentProvider
\* follows a call that returns
SaveApiKey ==
  \E provider \in {"openai", "gemini"}, apiKey \in Keys \ {Null}, ok \in BOOLEAN :
    /\ saved.calls < MaxSaves
    /\ apiKey \notin {EmptyKey, MASKED_VALUE}
    /\ \E r \in {SaveAPIKeyOf(storage, provider, apiKey, ok)} :
         /\ storage' = IF r.outcome = "raised" \/ ~ok THEN r.storage
                       ELSE [r.storage EXCEPT !.apiProvider = provider]
         /\ saved' = [calls |-> saved.calls + 1, caller |-> "popup", provider |-> provider,
                      apiKey |-> apiKey, outcome |-> r.outcome]
    /\ UNCHANGED <<script, page, now, lazy, extraction, capture, dom, walk, studySession, prompt,
                   ask, reset,
                   truncation>>

\* clearAllAPIKeys()
ClearAllAPIKeys ==
  /\ storage.openaiApiKey # Null \/ storage.geminiApiKey # Null
  /\ storage' = [storage EXCEPT !.openaiApiKey = Null, !.geminiApiKey = Null]
  /\ UNCHANGED <<script, page, now, lazy, extraction, capture, dom, walk, studySession, prompt,
                 saved, ask, reset,
                 truncation>>

KeyInit == ContextInit

KeyNext == SaveAPIKey \/ SaveApiKey \/ ClearAllAPIKeys

KeySpec == KeyInit /\ [][KeyNext]_vars

\* content-visual.js in a page that the popup scans repeatedly and the user
\* leaves alone
RescanInit == Init /\ script = "visual"

RescanNext ==
  \/ Inject
  \/ VReqCurrent
  \/ VReqAuto
  \/ BgCapture
  \/ VReply

RescanSpec == RescanInit /\ [][RescanNext]_vars

TypeOK ==
  /\ script \in {"tracker", "visual", "enhanced", "content"}
  /\ scrollY \in 0..page.maxScrollY
  /\ pendingScroll \in {0, 1}
  /\ userScrolls \in 0..MaxUserScrolls
  /\ listeners \in 0..MaxStarts
  /\ viewportTracker \in {"null", "set"}
  /\ request.pc \in {"idle", "settle", "timer", "sent", "replied", "pace", "done"}
  /\ IsABag(pending)
  /\ injected \in 1..MaxScans
  /\ now >= 0
  /\ now <= MaxTicks * TickMs \/ now <= MaxCacheLives * CACHE_DURATION
  /\ lazy.pc \in {"idle", "waiting", "resolved"}
  /\ lazy.loading \subseteq 1..lazy.n
  /\ document \in Docs
  /\ cachedPageText.type \in {"null", "string", "object"}
  /\ lastExtractionTime >= 0 /\ lastExtractionTime <= now
  /\ \A tk \in BagToSet(pending) :
       \/ tk.kind \in GlobalKinds /\ tk.pc \in {"settle", "replied"}
       \/ tk.kind \in {"fp", "cv"} /\ tk.listener \in 2..injected

\* ----------------------------------------------- handleAskQuestion, by step
\* the number of runs of handleAskQuestion
MaxAsks == 2
\* the values of modelSelect: a GPT model and a Gemini model
Models == {"gpt-4o-mini", "gemini-1.5-flash"}
\* what chrome.storage.sync holds when the popup opens
Stores ==
  { EmptyStorage,
    [EmptyStorage EXCEPT !.openaiApiKey = Key("sk-", 20, TRUE), !.apiProvider = "openai"],
    [EmptyStorage EXCEPT !.geminiApiKey = Key("AIza", 35, TRUE), !.apiProvider = "gemini"] }

\* getAPIKeyForModel(modelName) on a store
GetAPIKeyForModel(store, modelName) ==
  IF modelName = "gpt-4o-mini" THEN store[GetStorageKey("openai")]
  ELSE IF modelName = "gemini-1.5-flash" THEN store[GetStorageKey("gemini")]
  ELSE Null

\* how a run of handleAskQuestion ends before its try block: nothing is
\* sent and setLoading is not called
Return(a, outcome) == [a EXCEPT !.pc = "idle", !.outcome = outcome]

\* the part of handleAskQuestion after the auto-scan, up to its next await:
\* without scanned content it returns, else it asks for the API key
CheckContent(a, scannedContent) ==
  IF scannedContent = NoScan THEN Return(a, "no content") ELSE [a EXCEPT !.pc = "key"]

\* a click on the Ask button: handleAskQuestion up to its first await.
\* Outside a study session that is performAutoScan's getPageContent
AskClick ==
  \E question \in BOOLEAN, model \in Models :
    /\ ask.pc = "idle"
    /\ ~ask.disabled
    /\ ask.runs < MaxAsks
    /\ LET run == [ask EXCEPT !.runs = @ + 1, !.model = model, !.scanned = FALSE,
                              !.auto = UnscannedPage,
                              !.on = FALSE, !.outcome = "none", !.sent = NoSent,
                              !.session = studySession.active]
       IN  ask' = IF ~question THEN Return(run, "no question")
                  ELSE IF ~studySession.active
                  THEN [SetLoading(run, TRUE, "Scanning page...", "ask") EXCEPT
                          !.pc = "scan", !.on = TRUE]
                  ELSE CheckContent(run, prompt.scannedContent)
    /\ UNCHANGED <<script, page, now, lazy, extraction, capture, dom, walk, studySession,
                   prompt, storage, saved, reset,
                   truncation>>

\* the text lengths of the pages an auto-scan reads
AutoTexts == {5000}

\* getPageContent answers performAutoScan: a failure is thrown again and
\* handleAskQuestion returns from its catch, a success is stored
AutoScanReply ==
  \E success \in BOOLEAN, url \in Urls, text \in AutoTexts :
    /\ ask.pc = "scan"
    /\ IF success
       THEN /\ prompt' = [prompt EXCEPT !.scannedContent = PageData(url, text)]
            /\ ask' = CheckContent([ask EXCEPT !.scanned = TRUE, !.auto = PageData(url, text)],
                                    PageData(url, text))
       ELSE /\ ask' = Return(ask, "scan failed")
            /\ UNCHANGED prompt
    /\ UNCHANGED <<script, page, now, lazy, extraction, capture, dom, walk, studySession,
                   storage, saved, reset,
                   truncation>>

\* getAPIKeyForModel answers: without a key the run returns, with one it
\* turns the loading state on and calls the provider with the scanned
\* content
KeyReply ==
  /\ ask.pc = "key"
  /\ \E apiKey \in {GetAPIKeyForModel(storage, ask.model)} :
       ask' = IF apiKey = Null THEN Return(ask, "no key")
              ELSE [SetLoading(ask, TRUE, "Processing question...", "ask") EXCEPT
                      !.pc = "send", !.on = TRUE,
                      !.sent = [content |-> prompt.scannedContent, apiKey |-> apiKey,
                                model |-> ask.model, session |-> ask.session,
                                scanned |-> ask.scanned, auto |-> ask.auto,
                                scanPage |-> ask.scanPage]]
  /\ UNCHANGED <<script, page, now, lazy, extraction, capture, dom, walk, studySession,
                 prompt, storage, saved, reset,
                 truncation>>

\* the provider answers or fails: the answer or the error is shown, and
\* the finally block turns the loading state off
ProviderReply ==
  \E ok \in BOOLEAN :
    /\ ask.pc = "send"
    /\ ask' = [SetLoading(ask, FALSE, "", "ask") EXCEPT
                 !.pc = "idle", !.outcome = IF ok THEN "answer" ELSE "error"]
    /\ UNCHANGED <<script, page, now, lazy, extraction, capture, dom, walk, studySession,
                   prompt, storage, saved, reset,
                   truncation>>

\* the popup opens on a store with or without keys
AskInit ==
  /\ Loaded({"enhanced"}, {CHOOSE p \in Pages : TRUE}, {BlankDoc})
  /\ dom = NoDom
  /\ walk = NoWalk
  /\ studySession = NoSession
  /\ prompt = NoPrompt
  /\ storage \in Stores
  /\ saved = NoSave
  /\ ask = NoAsk
  /\ reset = NoReset
  /\ truncation = NoTruncation

\* asking in and out of study sessions, pages being scanned
AskNext ==
  \/ AskClick \/ AutoScanReply \/ KeyReply \/ ProviderReply
  \/ StartStudySession \/ EndStudySession \/ HandleScanPage

AskSpec == AskInit /\ [][AskNext]_vars

\* asking in and out of study sessions; every request made is answered
LoadingNext ==
  \/ AskClick \/ AutoScanReply \/ KeyReply \/ ProviderReply
  \/ StartStudySession \/ EndStudySession

LoadingSpec ==
  /\ AskInit /\ [][LoadingNext]_vars
  /\ WF_vars(AutoScanReply) /\ WF_vars(KeyReply) /\ WF_vars(ProviderReply)

\* ------------------------------------------------- the Reset All Data button
\* the number of clicks on the button
MaxClicks == 3
\* the last time of the clock, in milliseconds
MaxClock == 12000
\* the delay of resetAllData's setTimeout, and of the reload that follows a
\* reset
CONFIRM_TIMEOUT == 5000
RELOAD_DELAY == 1500
\* the times the user lets pass between two actions
Pauses == {1000, 1500, 5000}

ResetListener == [handler |-> "resetAllData", once |-> FALSE]
ConfirmListener == [handler |-> "confirmResetAllData", once |-> TRUE]

\* resetAllData(): the button asks for confirmation. Its
\* removeEventListener names this.resetAllData, which was never
\* registered (init() registered an arrow function, the timer registers
\* bound functions), so no listener is removed
ResetAllData(r) ==
  [r EXCEPT !.textContent = "Confirm Reset ALL",
            !.listeners = Append(@, ConfirmListener),
            !.timers = @ \cup {[due |-> r.clock + CONFIRM_TIMEOUT, run |-> "expire"]},
            !.last.asked = TRUE]

\* confirmResetAllData(): ok tells whether the storage calls succeed. The
\* label is left as it is on success; the catch block restores it and
\* registers a bound resetAllData
ConfirmResetAllData(r, ok) ==
  IF ok
  THEN [r EXCEPT !.clears = @ + 1, !.last.cleared = TRUE,
                 !.timers = @ \cup {[due |-> r.clock + RELOAD_DELAY, run |-> "reload"]}]
  ELSE [r EXCEPT !.textContent = "Reset All Data",
                 !.listeners = Append(@, ResetListener)]

RECURSIVE DispatchClick(_, _, _)
\* the click listeners registered when the event is dispatched run in
\* order; those registered during the dispatch do not run for this event
DispatchClick(r, fired, ok) ==
  IF fired = <<>> THEN r
  ELSE DispatchClick(IF Head(fired).handler = "resetAllData"
                     THEN ResetAllData(r) ELSE ConfirmResetAllData(r, ok),
                     Tail(fired), ok)

\* a { once: true } listener is removed when it is invoked
WithoutOnce(ls) == SelectSeq(ls, LAMBDA l : ~l.once)

\* a click on the Reset All Data button
ResetClick ==
  \E ok \in BOOLEAN :
    /\ reset.clicks < MaxClicks
    /\ \E r \in {DispatchClick(
                   [reset EXCEPT !.clicks = @ + 1,
                                 !.listeners = WithoutOnce(@),
                                 !.armedAt = IF reset.textContent = "Reset All Data"
                                             THEN reset.clock ELSE @,
                                 !.last = [at |-> reset.clock,
                                           textContent |-> reset.textContent,
                                           asked |-> FALSE, cleared |-> FALSE]],
                   reset.listeners, ok)} :
         /\ reset' = r
         /\ IF r.last.cleared
            THEN /\ storage' = EmptyStorage
                 /\ studySession' = NoSession
                 /\ prompt' = [prompt EXCEPT !.scannedContent = NoScan]
                 /\ ask' = UpdateButtonStates(ask, NoSession, NoScan)
            ELSE UNCHANGED <<storage, studySession, prompt, ask>>
    /\ UNCHANGED <<script, page, now, lazy, extraction, capture, dom, walk, saved,
                   truncation>>

\* the timers that are due
Due == {t \in reset.timers : t.due <= reset.clock}

\* the callback of resetAllData's setTimeout runs: a button that still
\* shows the confirmation label gets its initial label and one more
\* resetAllData listener. Its removeEventListener names
\* this.confirmResetAllData, and the listener registered was a bound copy
Expire ==
  \E t \in Due :
    /\ t.run = "expire"
    /\ reset' = IF reset.textContent = "Confirm Reset ALL"
                THEN [reset EXCEPT !.timers = @ \ {t},
                                   !.textContent = "Reset All Data",
                                   !.listeners = Append(@, ResetListener)]
                ELSE [reset EXCEPT !.timers = @ \ {t}]
    /\ UNCHANGED <<script, page, now, lazy, extraction, capture, dom, walk, studySession,
                   prompt, storage, saved, ask,
                   truncation>>

\* window.location.reload(): the popup starts again, on the cleared store
Reload ==
  \E t \in Due :
    /\ t.run = "reload"
    /\ reset' = [NoReset EXCEPT !.clock = reset.clock, !.clicks = reset.clicks,
                                !.clears = reset.clears, !.last = reset.last,
                                !.armedAt = reset.armedAt]
    /\ ask' = NoAsk
    /\ prompt' = NoPrompt
    /\ UNCHANGED <<script, page, now, lazy, extraction, capture, dom, walk, studySession,
                   storage, saved,
                   truncation>>

\* time passes, up to the next timer at most
Pass ==
  \E d \in Pauses :
    /\ Due = {}
    /\ reset.clock + d <= MaxClock
    /\ \A t \in reset.timers : reset.clock + d <= t.due
    /\ reset' = [reset EXCEPT !.clock = @ + d]
    /\ UNCHANGED <<script, page, now, lazy, extraction, capture, dom, walk, studySession,
                   prompt, storage, saved, ask,
                   truncation>>

\* the popup opens on a store with or without keys
ResetInit == AskInit

ResetNext == ResetClick \/ Expire \/ Reload \/ Pass

ResetSpec == ResetInit /\ [][ResetNext]_vars

\* ------------------------------------------- scanning in a study session
\* handleScanPage in a visual mode, answered by content-visual.js
HandleScanPageVisual ==
  \E url \in Urls :
    /\ Len(AddPageToSession(studySession, VisualData(url)).pages) <= MaxPages
    /\ studySession' = AddPageToSession(studySession, VisualData(url))
    /\ prompt' = [prompt EXCEPT !.scannedContent = VisualData(url)]
    /\ ask' = UpdateButtonStates([SetLoading(ask, FALSE, "", "scan") EXCEPT
                                    !.scanPage = VisualData(url)],
                                 studySession', VisualData(url))
    /\ UNCHANGED <<script, page, now, lazy, extraction, capture, dom, walk, storage, saved,
                   reset,
                   truncation>>

SessionInit == ContextInit

SessionNext ==
  StartStudySession \/ EndStudySession \/ HandleScanPage \/ HandleScanPageVisual

SessionSpec == SessionInit /\ [][SessionNext]_vars

\* ------------------------------------------------------------ truncateText
\* the longest text, the largest maxLength and the number of calls tried
MaxText == 7
MaxTruncations == 2
\* a string is the sequence of its characters: the i-th character of a
\* text is the number i, and a dot is 0
Text(n) == [i \in 1..n |-> i]
Ellipsis == <<0, 0, 0>>

\* text.substring(0, end): a negative end counts as 0, one beyond the
\* length as the length
Substring0(text, end) ==
  SubSeq(text, 1, IF end < 0 THEN 0 ELSE IF end > Len(text) THEN Len(text) ELSE end)

\* truncateText(text, maxLength) of utils.js; the empty string is falsy
TruncateText(text, maxLength) ==
  IF text = <<>> \/ Len(text) <= maxLength THEN text
  ELSE Substring0(text, maxLength - 3) \o Ellipsis

\* a call of truncateText
Truncate ==
  \E n \in 0..MaxText, maxLength \in 0..MaxText :
    /\ truncation.calls < MaxTruncations
    /\ truncation' = [calls |-> truncation.calls + 1, text |-> Text(n),
                      maxLength |-> maxLength, result |-> TruncateText(Text(n), maxLength)]
    /\ UNCHANGED <<script, page, now, lazy, extraction, capture, dom, walk, studySession,
                   prompt, storage, saved, ask, reset>>

TruncateInit == ContextInit

TruncateNext == Truncate

TruncateSpec == TruncateInit /\ [][TruncateNext]_vars

\* ================================================================== claims
RequestKinds == {"current", "auto"}
History(i) == trackers[i].viewportHistory
\* capture round-trips (settle wait, request, reply) under way on a tracker:
\* every waiting invocation of the global tracker is in one
InFlight(i) ==
  IF i = "global" THEN BagCardinality(pending)
  ELSE IF request.kind \in RequestKinds /\ request.pc \in {"settle", "replied"}
       THEN 1 ELSE 0
Offsets(viewports) == [i \in 1..Len(viewports) |-> viewports[i].scrollY]
ScenarioPage == [pageHeight |-> 3000, innerHeight |-> 1000, maxScrollY |-> 2000]

\* C1: a tracker never has two capture round-trips (settle wait and
\* CAPTURE_SCREENSHOT request) under way at the same time.
C1_OneCaptureInFlight == \A i \in TrackerIds : InFlight(i) <= 1

\* C2: in every tracker, no two entries of viewportHistory carry the same
\* scrollY.
C2_Dedup ==
  \A i \in TrackerIds :
    \A a, b \in 1..Len(History(i)) :
      a # b => History(i)[a].data.scrollY # History(i)[b].data.scrollY

\* C2 witness: the global tracker holds two entries, taken at two offsets
C2_Witness == Len(History("global")) = 2

\* C3: one auto-scroll run never holds more captures than the safety cap (20).
C3_CaptureCountWithinCap ==
  /\ request.kind = "fp" => Len(request.screenshots) <= SAFETY_LIMIT
  /\ request.kind = "auto" => Len(History("request")) <= SAFETY_LIMIT

\* C4: every auto-scroll run eventually answers its request, whatever the
\* captures return.
C4_AutoScrollAnswers ==
  (request.kind \in {"auto", "fp"}) ~> request.resp.sent

\* the case of C5: an undisturbed run of captureFullPageScroll over a page of
\* height 3000 with viewport height 1000, every capture succeeding
ScenarioD ==
  /\ request.kind = "fp"
  /\ request.resp.sent
  /\ page = ScenarioPage
  /\ ~request.failed /\ userScrolls = 0 /\ injected = 1

\* C5 as stated: the run captures at 0, 800, 1600, 2400 and at last at 2000.
C5_AsClaimed ==
  ScenarioD => Offsets(request.resp.viewports) = <<0, 800, 1600, 2400, 2000>>

\* C5 as amended: captureFullPageScroll over a page of height 3000 with
\* viewport height 1000 (overlap 0.8), every capture succeeding, captures at
\* 0, 800, 1600 and then, clamped, at 2000, and stops.
C5_ScenarioD ==
  ScenarioD => Offsets(request.resp.viewports) = <<0, 800, 1600, 2000>>

\* C5 witness: such a run has answered
C5_Witness == ScenarioD /\ request.resp.success

\* C6: the auto-scroll step is floor(viewportHeight * overlap) and every
\* scroll target requested lies in [0, pageHeight - viewportHeight].
C6_TargetsInRange ==
  (request.kind \in {"auto", "fp"} /\ request.target.set) =>
    /\ ~request.target.nan
    /\ request.target.v >= 0
    /\ request.target.v <= page.pageHeight - page.innerHeight

\* a GET_PAGE_VISUAL request of the tracker script arrives in this step
Arrives ==
  /\ request.pc \in {"idle", "done"}
  /\ request'.kind \in RequestKinds
  /\ request' # request
\* the request calls captureCurrentViewport in this step: as the first thing
\* it does, or when an auto-scroll pause is over
RequestCalls == Arrives \/ (request.pc = "pace" /\ request' # request)
\* the offset the window has at that call
CallOffset == IF Arrives /\ request'.kind = "auto" THEN 0 ELSE scrollY
\* the set the call looks the offset up in: a request starts with a new tracker
CallHistory == IF Arrives THEN <<>> ELSE History("request")
\* startTracking calls captureCurrentViewport in this step: the number of
\* its invocations, waiting or returned, grows
StartCalls ==
  listeners' + BagCardinality(pending') = listeners + BagCardinality(pending) + 1

\* C7: captureCurrentViewport called at an offset that already has an entry
\* starts no capture round-trip and leaves viewportHistory as it was.
C7_SkipIsNoOp ==
  [][/\ (RequestCalls /\ MapHas(CallHistory, CallOffset)) =>
          /\ request'.pc # "settle"
          /\ request'.last = "skipped"
          /\ trackers'["request"].viewportHistory = CallHistory
     /\ (StartCalls /\ MapHas(History("global"), scrollY)) =>
          /\ pending' = pending
          /\ trackers'["global"].viewportHistory = History("global")]_vars

\* C7 witness: a call was skipped and the set holds its single entry
C7_Witness ==
  /\ request.kind \in RequestKinds
  /\ request.last = "skipped"
  /\ Len(History("request")) = 1

\* the reply callback of invocation tk runs in this step with a failed capture
FailedReply(tk) ==
  /\ script = "tracker"
  /\ tk.pc = "replied"
  /\ tk.reply # "ok"
  /\ IF tk.kind \in GlobalKinds
     THEN CopiesIn(tk, pending') < CopiesIn(tk, pending)
     ELSE request' # request

\* C8: when the capture primitive fails, captureCurrentViewport leaves
\* viewportHistory unchanged and its caller goes on: startTracking registers
\* its scroll listener and returns, an auto-scroll run goes on to its next
\* position, and current_viewport fails only in generateCompositeImage.
C8_FailureIsNonFatal ==
  [][\A tk \in Waiting :
       FailedReply(tk) =>
          /\ trackers'[TrackerOf(tk)].viewportHistory = History(TrackerOf(tk))
          /\ tk.kind = "start" =>
                /\ listeners' = listeners + 1
                /\ BagCardinality(pending') = BagCardinality(pending) - 1
          /\ tk.kind \in RequestKinds => request'.last = "failed"
          /\ (tk.kind = "auto" /\ tk.stage = "first") => request'.pc = "pace"
          /\ (tk.kind = "auto" /\ tk.stage = "loop") =>
                \/ request'.pc = "pace"
                \/ request'.resp =
                     VisualResponse("auto_scroll",
                                    GenerateCompositeImage(trackers["request"]))
          /\ tk.kind = "current" =>
                request'.resp = Failure("No viewport data captured")]_vars

\* C8 witness: an auto-scroll run whose first capture failed waits for its
\* next position with an empty set
C8_Witness ==
  /\ request.kind = "auto"
  /\ request.last = "failed"
  /\ request.pc = "pace"
  /\ Len(History("request")) = 0

\* C9: generateCompositeImage on an empty set fails with 'No viewport data
\* captured', and GET_PAGE_VISUAL and GET_COMPOSITE_IMAGE answer it as
\* {success: false, error}.
C9_NoViewportData ==
  /\ (request.kind \in RequestKinds /\ request.resp.sent
        /\ Len(History("request")) = 0) =>
            request.resp = Failure("No viewport data captured")
  /\ (script = "tracker" /\ syncResp.action \in {"GET_PAGE_VISUAL", "GET_COMPOSITE_IMAGE"}
        /\ viewportTracker = "set" /\ Len(History("global")) = 0) =>
            syncResp.resp = Failure("No viewport data captured")

\* C9 witness: GET_COMPOSITE_IMAGE was answered while the global tracker
\* existed and held nothing
C9_Witness ==
  /\ syncResp.action = "GET_COMPOSITE_IMAGE"
  /\ viewportTracker = "set"
  /\ Len(History("global")) = 0
  /\ ~syncResp.resp.success

\* C10: no GET_PAGE_VISUAL response says success without a viewport.
C10_NoEmptySuccess ==
  /\ (request.kind \in {"auto", "current", "fp", "cv"} /\ request.resp.success) =>
        Len(request.resp.viewports) >= 1
  /\ (syncResp.action = "GET_PAGE_VISUAL" /\ syncResp.resp.success) =>
        Len(syncResp.resp.viewports) >= 1

\* the viewports of a response are in non-decreasing order of scrollY
Sorted(viewports) ==
  \A a, b \in 1..Len(viewports) : a < b => viewports[a].scrollY <= viewports[b].scrollY

\* C11: in every successful visual response, whichever script and mode sent
\* it, the viewports are in non-decreasing order of scroll offset.
C11_ViewportsSorted ==
  /\ request.resp.success => Sorted(request.resp.viewports)
  /\ syncResp.resp.success => Sorted(syncResp.resp.viewports)

\* a scroll event is dispatched to the listeners in this step
ScrollDispatched == pendingScroll = 1 /\ pendingScroll' = 0
\* the global tracker has been stopped and not started again
Stopped == viewportTracker = "set" /\ ~trackers["global"].isTracking
\* an invocation of the global tracker receives its image in this step
StoresImage(tk) ==
  /\ tk.kind \in GlobalKinds /\ tk.pc = "replied" /\ tk.reply = "ok"
  /\ CopiesIn(tk, pending') < CopiesIn(tk, pending)

LastCaptureY ==
  IF Len(History("global")) = 0 THEN 0
  ELSE History("global")[Len(History("global"))].key
\* a > b
NumGt(a, b) == ~a.nan /\ ~b.nan /\ a.v > b.v

C14_AppendOnly ==
  [][/\ Len(trackers'["global"].viewportHistory) >= Len(History("global"))
     /\ \A i \in 1..Len(History("global")) :
          trackers'["global"].viewportHistory[i] = History("global")[i]]_vars

\* C15: GET_COMPOSITE_IMAGE answered while tracking is stopped returns no
\* viewport: the set of the stopped session is gone.
C15_DiscardedOnStop ==
  (syncResp.action = "GET_COMPOSITE_IMAGE" /\ Stopped) =>
     syncResp.resp.viewports = <<>>

\* ------------------------------------------------------------------- C16
\* the CAPTURE_SCREENSHOT request of invocation tk is with the background, or
\* answered with its reply callback still to run
Outstanding(tk) == tk.pc = "replied" \/ (tk.kind = "cv" /\ tk.pc = "sent")

OutstandingCount ==
  (IF Outstanding(request) THEN 1 ELSE 0)
  + BagCardinality([tk \in {t \in BagToSet(pending) : Outstanding(t)} |-> pending[tk]])

\* the capture sequences content-visual.js started for the last GET_PAGE_VISUAL
Sequences ==
  (IF request.kind \in {"cv", "fp"} THEN 1 ELSE 0)
  + BagCardinality([tk \in {t \in BagToSet(pending) : t.kind \in {"cv", "fp"}} |-> pending[tk]])

\* the calls of sendResponse made for the last GET_PAGE_VISUAL
Answers ==
  (IF request.kind \in {"cv", "fp"} /\ request.resp # NoResp THEN 1 ELSE 0)
  + BagCardinality([tk \in {t \in BagToSet(pending) :
                              t.kind \in {"cv", "fp"} /\ t.resp # NoResp} |-> pending[tk]])

\* C16: at most one CAPTURE_SCREENSHOT request is outstanding at any time, and
\* a GET_PAGE_VISUAL request starts one capture sequence and is answered once,
\* however many times content-visual.js has been injected before
C16_OneCaptureOneAnswer ==
  /\ OutstandingCount <= 1
  /\ Sequences <= 1
  /\ Answers <= 1

TextCall ==
  /\ <<cachedPageText, lastExtractionTime, textResp>>'
       # <<cachedPageText, lastExtractionTime, textResp>>
  /\ textResp'.mode \in {"structured", "text"}

\* C18: a text-extraction request less than CACHE_DURATION after the last
\* build returns the artifact that build stored and extracts nothing, whatever
\* the artifact is and whatever the page has become
C18_CachedWithinWindow ==
  [][(TextCall /\ cachedPageText # Null /\ now - lastExtractionTime < CACHE_DURATION)
       => /\ textResp'.ret = cachedPageText
          /\ UNCHANGED <<cachedPageText, lastExtractionTime>>]_vars

\* the stored timestamp is the one of the build that produced the artifact
SlotConsistent ==
  IF cachedPageText = Null THEN lastExtractionTime = 0
  ELSE cachedPageText.timestamp = lastExtractionTime

\* C19: content-enhanced.js keeps one slot: a request that finds it empty or
\* CACHE_DURATION old, on a page with content, stores the new artifact and
\* the time of its build together; the stored timestamp is always that of
\* the stored artifact's build; and an extraction that finds no content
\* leaves the slot as it was
C19_SingleSlot ==
  [][(TextCall /\ textResp'.mode = "structured") =>
       /\ (~Fresh(now, cachedPageText, lastExtractionTime) /\ document.body) =>
            /\ cachedPageText' = textResp'.ret
            /\ cachedPageText'.url = document.url
            /\ lastExtractionTime' = now
       /\ textResp'.ret = NoContent => UNCHANGED <<cachedPageText, lastExtractionTime>>
       /\ SlotConsistent']_vars

\* C19 witness: an extraction found no content and left alone a slot that
\* had expired
C19_Witness ==
  /\ textResp.mode = "structured"
  /\ textResp.ret = NoContent
  /\ cachedPageText # Null
  /\ now - lastExtractionTime >= CACHE_DURATION

\* C20: GET_PAGE_TEXT in structured mode on a document without content
\* (no content root, or an empty body) is answered with the failure that no
\* content was found, never with success
C20_EmptyDocumentFails ==
  [][(TextCall /\ textResp'.mode = "structured" /\ VisibleText(document) = "") =>
       /\ ~textResp'.resp.success
       /\ textResp'.resp.error = "No content found"]_vars

\* ------------------------------------------------------------------- C21
\* Scenario A: a body holding <h1>Title</h1><p>Hello world text content here</p>
ScenarioA == [NoDom EXCEPT !.kids = <<H1, P>>]
\* a node as the scenario writes it: type, level and text
Bare(node) ==
  IF node.type = "heading"
  THEN [type |-> node.type, level |-> node.level, content |-> node.content]
  ELSE [type |-> node.type, content |-> node.content]

\* the sections of Scenario A
ScenarioASections ==
  [i \in 1..Len(walk.doc.sections) |-> Bare(walk.doc.sections[i])]
    = <<[type |-> "heading", level |-> 1, content |-> <<Title>>],
        [type |-> "paragraph", content |-> <<Hello>>]>>

\* C21 as stated: extracting Scenario A's root yields the sections heading
\* (level 1, 'Title') and paragraph ('Hello world text content here'), and
\* formatting that document yields "# Title\n\nHello world text content here"
C21_AsClaimed ==
  (dom = ScenarioA /\ walk.mode = "structured") =>
    /\ ScenarioASections
    /\ walk.text = <<Line(0, "#", <<Title>>), BlankLine, Line(0, "", <<Hello>>)>>

\* C21, amended: the sections are those two, both at depth 1, and the text
\* is the page header, a blank line, "# Title", a blank line and the
\* paragraph indented by two spaces
C21_ScenarioA ==
  (dom = ScenarioA /\ walk.mode = "structured") =>
    /\ ScenarioASections
    /\ \A i \in 1..2 : walk.doc.sections[i].depth = 1
    /\ walk.text = <<Line(0, "Page:", <<dom.title>>), Line(0, "URL:", <<dom.url>>),
                     BlankLine, Line(0, "#", <<Title>>), BlankLine,
                     Line(1, "", <<Hello>>)>>

\* Scenario A has been extracted and formatted
C21_Witness == dom = ScenarioA /\ walk.mode = "structured" /\ walk.text # <<>>

\* the last request was a structured one answered from the cache
CachedCall(w) == w.mode = "structured" /\ w.success /\ w.cached

Sections == IF walk.mode = "structured" /\ walk.success THEN walk.doc.sections ELSE <<>>
\* a node made by extractTOCElements, and one made by the structural walk
Detected(node) == "selector" \in DOMAIN node
Walked(node) == ~Detected(node)
\* the elements the nodes of a sequence were made from
Sources(nodes) == [i \in 1..Len(nodes) |-> nodes[i].el]
\* the index of a selector in CONFIG.TOC_SELECTORS; the positioned pass
\* comes after all of them
PassOf(node) ==
  IF node.selector = "positioned" THEN Len(TOC_SELECTORS) + 1
  ELSE CHOOSE i \in 1..Len(TOC_SELECTORS) : TOC_SELECTORS[i] = node.selector

RECURSIVE IsSubsequence(_, _)
\* a can be obtained from b by leaving elements out
IsSubsequence(a, b) ==
  IF a = <<>> THEN TRUE
  ELSE IF b = <<>> THEN FALSE
  ELSE IF Head(a) = Head(b) THEN IsSubsequence(Tail(a), Tail(b))
  ELSE IsSubsequence(a, Tail(b))

\* C23: in every document extractStructuredContent builds, the nodes of the
\* TOC detector are an initial prefix of sections, those of the selector
\* pass (selector by selector, each in document order) before those of the
\* positioned pass (in document order), and the nodes of the structural walk
\* follow all of them in pre-order of the content element's subtree
C23_TocPrefixThenPreOrder ==
  /\ \A i, j \in 1..Len(Sections) :
       (i < j /\ Detected(Sections[j]))
         => /\ Detected(Sections[i])
            /\ PassOf(Sections[i]) <= PassOf(Sections[j])
  /\ \A k \in 1..(Len(TOC_SELECTORS) + 1) :
       IsSubsequence(Sources(SelectSeq(Sections, LAMBDA n : Detected(n) /\ PassOf(n) = k)),
                     Flatten(dom.kids))
  /\ IsSubsequence(Sources(SelectSeq(Sections, Walked)), Flatten(<<walk.root>>))

\* a document with nodes of both passes of the detector and several of the
\* walk
C23_Witness ==
  /\ \E i \in 1..Len(Sections) : Detected(Sections[i]) /\ Sections[i].selector # "positioned"
  /\ \E i \in 1..Len(Sections) : Detected(Sections[i]) /\ Sections[i].selector = "positioned"
  /\ Len(SelectSeq(Sections, Walked)) >= 2

\* the elements of the sanitized copy that a main-content selector matches,
\* in document order
Candidates(sel) ==
  SelectSeq(Flatten(Sanitize(dom.kids)), LAMBDA el : MainMatches(sel, el))
\* the priority order of the main-content selectors
Priority == <<"main", "[role=main]", ".main-content", "#main", ".content", "article">>

\* C24: the content element of a structured extraction is the first match
\* of the first selector, in the order main, [role=main], .main-content,
\* #main, .content, article, that matches anything in the sanitized copy;
\* it is the body only when no selector matches, and nothing is found only
\* when there is no body either
C24_FirstSelectorWins ==
  (walk.mode = "structured" /\ ~walk.cached)
    => /\ \A i \in 1..Len(Priority) :
            (Candidates(Priority[i]) # <<>> /\ \A j \in 1..(i - 1) : Candidates(Priority[j]) = <<>>)
              => walk.root = Head(Candidates(Priority[i])) /\ walk.success
       /\ (\A i \in 1..Len(Priority) : Candidates(Priority[i]) = <<>>)
            => /\ dom.body => (walk.root.tag = "body" /\ walk.root.kids = Sanitize(dom.kids)
                               /\ walk.success)
               /\ ~dom.body => (walk.root = NoElement /\ ~walk.success)

\* an article precedes the main element that was selected
C24_Witness ==
  /\ walk.mode = "structured" /\ ~walk.cached
  /\ walk.root.tag = "main"
  /\ Len(dom.kids) = 2
  /\ dom.kids[1].tag = "article"
  /\ dom.kids[2] = walk.root

\* an element of the exclusion set: navigation, header, footer, their ARIA
\* roles and their classes
Navigational(el) ==
  \/ el.tag \in {"nav", "header", "footer"}
  \/ el.role \in {"navigation", "banner", "contentinfo"}
  \/ el.cls \in {"nav", "navbar", "navigation", "header", "footer"}

RECURSIVE TextOutside(_)
\* the text of a list of siblings that is not below an element of the
\* exclusion set
TextOutside(kids) ==
  IF kids = <<>> THEN <<>>
  ELSE (IF Navigational(Head(kids)) THEN <<>>
        ELSE Head(kids).text \o TextOutside(Head(kids).kids)) \o TextOutside(Tail(kids))

Pieces(t) == { t[i] : i \in 1..Len(t) }
\* the page's text that occurs below elements of the exclusion set only
OnlyExcluded == Pieces(KidsText(dom.kids)) \ Pieces(TextOutside(dom.kids))

\* C25: the text of a GET_PAGE_TEXT response, simple or structured, holds
\* no text that the page has below excluded elements only
C25_NoExcludedText ==
  \A i \in 1..Len(walk.text) : Pieces(walk.text[i].body) \cap OnlyExcluded = {}

\* the same for the simple extraction alone
C25_SimpleHasNoExcludedText == walk.mode = "simple" => C25_NoExcludedText

\* the deepest nesting of elements below a list of siblings
RECURSIVE Height(_)
Height(kids) ==
  IF kids = <<>> THEN 0
  ELSE LET h == 1 + Height(Head(kids).kids)
           r == Height(Tail(kids))
       IN  IF h > r THEN h ELSE r

\* C26: the walker caps its recursion depth at a fixed bound D: whatever
\* the nesting of the page, no emitted node has a depth greater than D;
\* with D = MaxDepth, the nesting of the deepest element tree
C26_DepthCapped ==
  \A i \in 1..Len(Sections) : Sections[i].depth <= MaxDepth

\* the depth of the deepest emitted node is the nesting depth of the page:
\* the walker has no bound of its own
C26_DepthFollowsNesting ==
  \A i \in 1..Len(Sections) : Sections[i].depth <= Height(dom.kids)

\* the lines that open a heading and a TOC block
HeadingLine(line) == \E n \in 1..Len(Hashes) : line.literal = Hashes[n]
TocLine(line) == line.literal = "TABLE OF CONTENTS:"

\* C27: in the formatted text, heading lines and TOC blocks start at column
\* 0 whatever the depth of their node
C27_HeadingsAndTocUnindented ==
  walk.mode = "structured"
    => \A i \in 1..Len(walk.text) :
         (HeadingLine(walk.text[i]) \/ TocLine(walk.text[i])) => walk.text[i].indent = 0

\* the same for heading lines alone
C27_HeadingsUnindented ==
  walk.mode = "structured"
    => \A i \in 1..Len(walk.text) : HeadingLine(walk.text[i]) => walk.text[i].indent = 0

\* the keywords the positioned pass is said to look for
ClaimedKeywords ==
  {"on this page", "contents", "outline", "in this article", "table of contents"}
\* an element of the page whose original counterpart is positioned fixed or
\* absolute
Floats(el) ==
  /\ OriginalOf(Flatten(dom.kids), el) # NoElement
  /\ OriginalOf(Flatten(dom.kids), el).pos \in {"fixed", "absolute"}
\* the positioned pass made a node from an element
PositionedNode(el) ==
  \E i \in 1..Len(Sections) :
    Detected(Sections[i]) /\ Sections[i].selector = "positioned" /\ Sections[i].el = el
\* an uncached structured extraction has been answered
FreshExtraction == walk.mode = "structured" /\ walk.success /\ ~walk.cached

\* C28: in the positioned pass an element whose original counterpart is
\* positioned fixed or absolute yields a TOC node exactly when its text is
\* longer than 50 and contains one of 'on this page', 'contents',
\* 'outline', 'in this article', 'table of contents'
C28_PositionedKeywords ==
  FreshExtraction
    => \A el \in Pieces(Flatten(dom.kids)) :
         Floats(el)
           => (PositionedNode(el)
                 <=> /\ Length(InnerText(el)) > 50
                     /\ \E k \in ClaimedKeywords : Includes(InnerText(el), k))

\* the same with the three keywords 'on this page', 'contents', 'outline'
C28_ThreeKeywords ==
  FreshExtraction
    => \A el \in Pieces(Flatten(dom.kids)) :
         Floats(el)
           => (PositionedNode(el)
                 <=> /\ Length(InnerText(el)) > 50
                     /\ \E k \in {"on this page", "contents", "outline"} :
                          Includes(InnerText(el), k))

\* C29: the page context of a text-mode provider request, the current
\* page's text with the study-session context appended, is at most 15000
\* characters long whatever the text lengths and the number of session pages
C29_ContextLimited == prompt.asked => prompt.context <= 15000

\* the limit, CONFIG.MAX_CONTEXT_LENGTH, is that of the current page's part
C29_CurrentPageLimited ==
  prompt.asked => prompt.context <= MAX_CONTEXT_LENGTH + prompt.session

\* a key that does not match the pattern of a provider: no string, the
\* empty string, or a string the provider's pattern rejects (every string
\* for a provider without pattern)
Invalid(provider, apiKey) ==
  \/ apiKey \in {Null, EmptyKey}
  \/ provider = "openai" /\ ~OPENAI(apiKey)
  \/ provider = "gemini" /\ ~GEMINI(apiKey)
  \/ provider \notin {"openai", "gemini"}
\* every stored key matches its provider's pattern
StoredKeysValid(store) ==
  /\ store.openaiApiKey # Null
       => ~Invalid("openai", store.openaiApiKey) /\ store.openaiApiKey.prefix = "sk-"
  /\ store.geminiApiKey # Null => ~Invalid("gemini", store.geminiApiKey)

DistinctOffsets(viewports) ==
  \A i, j \in 1..Len(viewports) : i # j => viewports[i].scrollY # viewports[j].scrollY

\* C31: the list of viewports that captureFullPageScroll of
\* content-visual.js returns never holds two entries with the same scrollY
C31_FullPageOffsetsDistinct ==
  \A tk \in Waiting :
    (tk.kind = "fp" /\ tk.pc = "done" /\ tk.resp.success) => DistinctOffsets(tk.resp.viewports)

\* the same for the pages whose window follows every requested scroll, as
\* long as the user leaves the page alone
C31_DistinctWhenWindowMoves ==
  \A tk \in Waiting :
    (tk.kind = "fp" /\ tk.pc = "done" /\ tk.resp.success
       /\ page.maxScrollY = page.pageHeight - page.innerHeight /\ userScrolls = 0)
      => DistinctOffsets(tk.resp.viewports)

\* while tracking, a scroll event waits to be dispatched at an offset that
\* is neither the last captured position nor in the history
ScrolledAway ==
  /\ viewportTracker = "set"
  /\ trackers["global"].isTracking
  /\ pendingScroll = 1
  /\ scrollY # trackers["global"].lastScrollY
  /\ ~HasViewport(trackers["global"], scrollY)
\* a capture at the window's offset has been issued by handleScroll, or
\* its image is stored
CaptureIssued ==
  \/ \E tk \in BagToSet(pending) : tk.kind = "scroll" /\ tk.key = scrollY
  \/ HasViewport(trackers["global"], scrollY)

\* C32: while tracking with the shipped configuration, once the page has
\* been scrolled away from the last captured position, a capture at the
\* new position is eventually issued (unless tracking is stopped first)
C32_ScrollLeadsToCapture ==
  ScrolledAway ~> (CaptureIssued \/ ~trackers["global"].isTracking)

\* with the shipped configuration handleScroll never issues a capture
C32_NoScrollCapture == \A tk \in BagToSet(pending) : tk.kind # "scroll"

\* the offset the window had when the image of a stored entry was taken
ImageOffset(entry) == entry.data.screenshot.at
StoredUnderImageOffset(m) == \A i \in 1..Len(m) : m[i].key = ImageOffset(m[i])

\* C33: every entry of a tracker's viewport set is stored under the scroll
\* offset the window had when the capture primitive took the entry's image,
\* also when the page is scrolled while captureCurrentViewport waits.
C33_KeyIsImageOffset == \A i \in TrackerIds : StoredUnderImageOffset(History(i))

\* what does hold: an entry's key is the offset its own scrollY field records
C33_KeyIsRecordedOffset ==
  \A i \in TrackerIds :
    \A k \in 1..Len(History(i)) : History(i)[k].key = History(i)[k].data.scrollY

\* the loading state of the ask controls: the spinner shows, or the Ask
\* button carries a progress label
LoadingOn == ask.loadingDiv = "block"
LoadingOff ==
  ask.loadingDiv = "none" /\ ~ask.disabled /\ ask.textContent = "Ask Question"

\* C34: every run of handleAskQuestion that turned the loading state on
\* eventually turns it off: the spinner is hidden and the Ask button is
\* enabled again with its normal label, whatever the outcome.
C34_LoadingEventuallyOff == (ask.on /\ LoadingOn) ~> LoadingOff

\* what does hold: a run that reaches the provider call turns the loading
\* state off when the provider has answered
C34_OffAfterProviderCall == (ask.pc = "send") ~> (ask.pc = "idle" /\ LoadingOff)
\* ... and a run that ends before the provider call leaves it as
\* performAutoScan set it
C34_EarlyReturnLeavesLoading ==
  [][(ask.pc # "idle" /\ ask'.pc = "idle" /\ ask'.outcome # "answer" /\ ask'.outcome # "error")
       => (/\ ask'.loadingDiv = ask.loadingDiv
           /\ ask'.disabled = ask.disabled
           /\ ask'.textContent = ask.textContent)]_vars

\* the confirmation asked for by a click has expired: no timer is pending
\* and the button shows its initial label
Expired ==
  /\ reset.clicks > 0 /\ reset.clears = 0
  /\ reset.textContent = "Reset All Data" /\ reset.timers = {}

\* C35: Reset All Data needs a confirmation that expires: a click that
\* finds the initial label only asks for confirmation, a click clears the
\* stored data only when it finds the confirmation label, within 5 seconds
\* of the click that asked, and once the confirmation has expired the
\* button has the listeners it had when the popup opened.
C35_ConfirmationExpires ==
  /\ reset.last.cleared =>
       /\ reset.last.textContent = "Confirm Reset ALL"
       /\ reset.last.at - reset.armedAt <= CONFIRM_TIMEOUT
  /\ Expired => reset.listeners = NoReset.listeners

\* what does hold: the first click after the popup opens clears nothing
C35_FirstClickOnlyAsks ==
  reset.clicks = 1 => (reset.clears = 0 /\ reset.last.asked /\ storage \in Stores)
\* the part of C35 about the data alone: it fails as well
C35_ClearedOnlyWhenConfirming ==
  reset.last.cleared => reset.last.textContent = "Confirm Reset ALL"

\* the part of C35 about the expired confirmation alone: it fails as well
C35_ExpiredButtonIsInitial == Expired => reset.listeners = NoReset.listeners

\* the pages of the session, by where they were read from
Addresses(pages) == {pages[i].address : i \in 1..Len(pages)}
EntryOf(pages, address) == CHOOSE i \in 1..Len(pages) : pages[i].address = address
\* a step that scans a page in an active study session: the session stays
\* active and has pages (starting a session empties the list), and the
\* content scanned or the list changes
ScansInSession ==
  /\ studySession.active /\ studySession'.active
  /\ studySession'.pages # <<>>
  /\ ask'.scanPage # ask.scanPage \/ studySession'.pages # studySession.pages
\* no two entries share a URL
DistinctUrls(pages) ==
  \A i, j \in 1..Len(pages) : i # j => pages[i].url # pages[j].url

\* C36: in an active study session the pages list holds one entry per
\* distinct page scanned: no two entries share a URL, scanning a page that
\* is in the session replaces its entry in place, and scanning a page that
\* is not, in text or in visual mode, adds one entry.
C36_OneEntryPerPage ==
  [][ScansInSession =>
       LET old == studySession.pages
           new == studySession'.pages
           scanned == ask'.scanPage.address
       IN  /\ DistinctUrls(new)
           /\ IF scanned \in Addresses(old)
              THEN /\ Len(new) = Len(old)
                   /\ new[EntryOf(old, scanned)].address = scanned
                   /\ \A i \in 1..Len(old) : i # EntryOf(old, scanned) => new[i] = old[i]
              ELSE /\ Len(new) = Len(old) + 1
                   /\ new[Len(new)].address = scanned
                   /\ \A i \in 1..Len(old) : new[i] = old[i]]_vars

\* what does hold: the entries have distinct URLs, a page scanned in visual
\* mode being filed under 'unknown'
C36_EntriesHaveDistinctUrls ==
  /\ DistinctUrls(studySession.pages)
  /\ \A i \in 1..Len(studySession.pages) :
       studySession.pages[i].text = 0 /\ studySession.pages[i].titleLength = 12
         => studySession.pages[i].url = "unknown"
\* ... and text scans alone keep one entry per page
C36_TextScansKeepOneEntryPerPage ==
  (\A i \in 1..Len(studySession.pages) : studySession.pages[i].url # "unknown")
    => Cardinality(Addresses(studySession.pages)) = Len(studySession.pages)

\* a run of handleAskQuestion has passed a question to a provider
Sent == ask.sent # NoSent

\* C37: a question is sent to a provider only with scanned content and a
\* stored API key for the selected model; outside a study session the run
\* first scans and sends the result of its scan, and inside an active
\* study session it scans nothing and sends the content of the last Scan
\* Page.
C37_SendsWhatWasScanned ==
  Sent =>
    /\ ask.sent.content # UnscannedPage
    /\ ask.sent.apiKey # Null
    /\ ask.sent.apiKey = GetAPIKeyForModel(storage, ask.sent.model)
    /\ IF ask.sent.session
       THEN ~ask.sent.scanned /\ ask.sent.content = ask.sent.scanPage
       ELSE ask.sent.scanned /\ ask.sent.content = ask.sent.auto

\* what does hold: content and a key for the model are there, a run scans
\* outside a study session and does not scan inside one
C37_SendsWithContentAndKey ==
  Sent =>
    /\ ask.sent.content # UnscannedPage
    /\ ask.sent.apiKey # Null
    /\ ask.sent.apiKey = GetAPIKeyForModel(storage, ask.sent.model)
    /\ ask.sent.scanned = ~ask.sent.session
\* the part of C37 about study sessions alone: it fails
C37_SessionSendsScanPage ==
  (Sent /\ ask.sent.session) => ask.sent.content = ask.sent.scanPage

\* a call of truncateText has been made
Truncated == truncation.calls > 0
\* the result is a prefix of the text followed by '...'
PrefixThenEllipsis(text, result) ==
  \E k \in 0..Len(text) : result = SubSeq(text, 1, k) \o Ellipsis

\* C38: truncateText(text, maxLength) returns at most maxLength characters
\* for every text and every maxLength >= 0: the text unchanged when it
\* fits, otherwise a prefix of the text followed by '...'.
C38_AtMostMaxLength ==
  Truncated =>
    /\ Len(truncation.result) <= truncation.maxLength
    /\ IF Len(truncation.text) <= truncation.maxLength
       THEN truncation.result = truncation.text
       ELSE PrefixThenEllipsis(truncation.text, truncation.result)

\* what does hold: the result has at most maxLength characters when
\* maxLength is 3 or more or the text is empty, and three characters
\* otherwise
C38_AtMostMaxLengthFromThree ==
  Truncated =>
    /\ (truncation.maxLength >= 3 \/ truncation.text = <<>>)
         => Len(truncation.result) <= truncation.maxLength
    /\ (truncation.maxLength < 3 /\ Len(truncation.text) > truncation.maxLength)
         => truncation.result = Ellipsis
\* ... and it is the text when the text fits, else a prefix and '...'
C38_TextOrPrefixThenEllipsis ==
  Truncated =>
    IF Len(truncation.text) <= truncation.maxLength
    THEN truncation.result = truncation.text
    ELSE PrefixThenEllipsis(truncation.text, truncation.result)

====
